---- MODULE Spec2Model ----
(***************************************************************************)
(* A model of the document-ingestion pipeline of tools/data_feeder:        *)
(*   - RAGPipeline.batch_process_async and the per-item chain              *)
(*     download_and_process -> process_pdf (pipeline.py);                  *)
(*   - validate_pdf_path (pdf_extractor.py), as a pure operator over a     *)
(*     raw path (a sequence of tokens) and the facts of the filesystem.    *)
(*                                                                         *)
(* Optional values (Python's None / a value) are sequences of length 0 or  *)
(* 1: None == << >>, Some(x) == << x >>.                                    *)
(***************************************************************************)
EXTENDS Integers, Sequences, FiniteSets, TLC

\* ------------------------------------------------------------------ bounds
\* Longest locator list given to batch_process_async.
MaxUrls == 3
\* Largest max_concurrent tried (the smallest is -1, which Semaphore rejects).
MaxConc == 2
\* Longest raw path, in tokens, given to validate_pdf_path.
MaxPathLen == 4
\* Most runs of one repeated character a sample text is made of.
MaxRuns == 2
\* Most pages of a sample document (one sample has 50).
MaxDocPages == 2
\* Longest of the short texts given to detect_languages.
MaxChars == 2
\* Most calls of save_result in a row.
MaxSaves == 2
\* Chat requests on the go at once, and most messages of one WebSocket connection.
MaxRequests == 2
MaxMessages == 2
\* Most calls made on one agent name.
MaxAgentCalls == 5

\* --------------------------------------------------------------- constants
MAX_FILE_SIZE_MB == 100
BytesPerMB == 1048576
MAX_TEXT_LENGTH == 500000
MAX_PAGES == 1000

None == << >>
Some(x) == << x >>

VARIABLES
    \* ---- batch_process_async
    urls,               \* the locator list (locator i is the number i)
    max_concurrent,     \* the caller's limit
    pc,                 \* "start" | "gather" | "returned" | "raised"
    sem,                \* asyncio.Semaphore's counter
    st,                 \* per item: "waiting" | "running" | "downloaded" | "hung" | "done"
    taskOutcome,        \* per item: None, or Some(what its task returned or raised)
    cause,              \* per item: which step of its own chain failed ("none" if none)
    chainCalls,         \* per item: the calls its download_and_process has made
    doneOrder,          \* the items in the order their tasks finished
    downloads,          \* the PDFs of downloads_dir, oldest modification time first
    results,            \* self.results
    processed_results,  \* the list batch_process_async returns
    summary,            \* None, or Some(the summary save_all_results wrote)
    \* ---- validate_pdf_path
    vraw,               \* the raw path string, a sequence of tokens
    vfs,                \* what the filesystem holds at the resolved path
    vres,               \* None, or Some(the outcome of validate_pdf_path)
    \* ---- truncate_text
    ttext,              \* the text given to the first call (a sequence of code points)
    tmax,               \* max_length
    tout,               \* the results of the successive calls, each on the text before it
    \* ---- extract_text_from_pdf
    xin,                \* None, or Some(the call's input)
    xout,               \* None, or Some(what the call returned or raised)
    \* ---- detect_languages, detect_legacy_font, get_unicode_status
    ltext,              \* the text
    llang,              \* None, or Some(the flags detect_languages returned)
    llegacy,            \* None, or Some(what detect_legacy_font returned)
    lstatus,            \* None, or Some(what get_unicode_status returned)
    \* ---- process_pdf
    pin,                \* None, or Some(the call's input)
    pout,               \* None, or Some(the call's result and what it called)
    \* ---- save_result
    output_dir,         \* the files of output_dir: path -> content
    saves,              \* the calls of save_result made so far
    \* ---- chat_sse, chat_websocket
    requests,           \* per chat request: its kind, session id, position, messages sent
    messages,           \* message_store._messages: session id -> list of messages
    \* ---- create_agent_config, update_agent_config, delete_agent_config
    agent_config,       \* None, or Some(the row of agent_configs for the agent name)
    prompt_history,     \* the agent's rows of agent_prompt_history, oldest first
    agent_calls         \* the number of calls made on the agent name

batchVars == << urls, max_concurrent, pc, sem, st, taskOutcome, cause, chainCalls,
                doneOrder, downloads, results, processed_results, summary >>
pathVars == << vraw, vfs, vres >>
truncVars == << ttext, tmax, tout >>
extractVars == << xin, xout >>
langVars == << ltext, llang, llegacy, lstatus >>
procVars == << pin, pout >>
saveVars == << output_dir, saves >>
chatVars == << requests, messages >>
agentVars == << agent_config, prompt_history, agent_calls >>
\* The variables of the functions that are called on their own.
funVars == << pathVars, truncVars, extractVars, langVars, procVars, saveVars,
             chatVars, agentVars >>
vars == << batchVars, funVars >>

\* ================================================================ texts
\* A text is a Python str: a sequence of code points.
Min(a, b) == IF a <= b THEN a ELSE b
Max(a, b) == IF a >= b THEN a ELSE b

\* n copies of the character c.
Repeat(c, n) == [k \in 1..n |-> c]

\* str(n) for n >= 0: the decimal digits.
RECURSIVE Digits(_)
Digits(n) == IF n < 10 THEN << 48 + n >> ELSE Digits(n \div 10) \o << 48 + (n % 10) >>

\* f"{n}"
FormatInt(n) == IF n < 0 THEN << 45 >> \o Digits(0 - n) ELSE Digits(n)

\* The digits of n >= 0 in groups of three separated by commas.
RECURSIVE Grouped(_)
Grouped(n) ==
    IF n < 1000 THEN Digits(n)
    ELSE Grouped(n \div 1000) \o << 44 >>
         \o << 48 + ((n \div 100) % 10), 48 + ((n \div 10) % 10), 48 + (n % 10) >>

\* f"{n:,}"
FormatGrouped(n) == IF n < 0 THEN << 45 >> \o Grouped(0 - n) ELSE Grouped(n)

\* text[:n]: the first n characters, counted from the end when n is negative.
Prefix(text, n) ==
    SubSeq(text, 1, IF n >= 0 THEN Min(n, Len(text)) ELSE Max(Len(text) + n, 0))

\* ========================================================== truncate_text
\* f"\n\n[... Truncated at {max_length:,} characters ...]"
TruncationMarker(max_length) ==
    << 10, 10, 91, 46, 46, 46, 32, 84, 114, 117, 110, 99, 97, 116, 101, 100, 32, 97, 116, 32 >>
    \o FormatGrouped(max_length)
    \o << 32, 99, 104, 97, 114, 97, 99, 116, 101, 114, 115, 32, 46, 46, 46, 93 >>

\* A truncation that cuts one character short of the limit.
TruncateTextOneShort(text, max_length) ==
    IF Len(text) <= max_length
    THEN [text |-> text, truncated |-> FALSE]
    ELSE [text |-> Prefix(text, max_length - 1) \o TruncationMarker(max_length),
          truncated |-> TRUE]

\* A truncation that puts its marker before the text it kept.
TruncateTextMarkerFirst(text, max_length) ==
    IF Len(text) <= max_length
    THEN [text |-> text, truncated |-> FALSE]
    ELSE [text |-> TruncationMarker(max_length) \o Prefix(text, max_length),
          truncated |-> TRUE]

\* truncate_text(text, max_length) -> (text, was_truncated)
TruncateText(text, max_length) ==
    IF Len(text) <= max_length
    THEN [text |-> text, truncated |-> FALSE]
    ELSE [text |-> Prefix(text, max_length) \o TruncationMarker(max_length),
          truncated |-> TRUE]

\* ---- the inputs truncate_text is tried on
\* 'x', a newline and ']', in runs of these lengths.
TruncChars == {120, 10, 93}
TruncRunLengths == {1, 2, 1200}
TruncRuns == {Repeat(c, n) : c \in TruncChars, n \in TruncRunLengths}
RECURSIVE TextsOfRuns(_, _)
TextsOfRuns(runs, n) ==
    IF n = 0 THEN {<< >>}
    ELSE LET shorter == TextsOfRuns(runs, n - 1)
         IN  shorter \cup {t \o r : t \in shorter, r \in runs}
TruncTexts == TextsOfRuns(TruncRuns, MaxRuns)
\* max_length: around the lengths of the short texts, and around 1,000.
TruncLimits == (-2..4) \cup {1000, 1199, 1200}

PathIdle == vraw = << >> /\ vfs = [node |-> "missing", size |-> 0, link |-> None] /\ vres = None
TruncIdle == ttext = << >> /\ tmax = 0 /\ tout = << >>
ExtractIdle == xin = None /\ xout = None
LangIdle == ltext = << >> /\ llang = None /\ llegacy = None /\ lstatus = None
ProcIdle == pin = None /\ pout = None
SaveIdle == output_dir = << >> /\ saves = << >>
ChatIdle == requests = << >> /\ messages = << >>
AgentIdle == agent_config = None /\ prompt_history = << >> /\ agent_calls = 0

\* ===================================================== validate_pdf_path
\* A raw path is a sequence of tokens. "." and "/" are the characters; every
\* other token stands for a run of characters holding neither; "NUL" is an
\* embedded null byte, on which Path.resolve() raises ValueError.
Tokens == {".", "/", "pdf", "PDF", "txt", "NUL"}

\* The process's working directory, as a list of path components.
Cwd == << <<"cwd">> >>

\* The size ceiling in bytes. The code compares st_size / (1024 * 1024) with
\* MAX_FILE_SIZE_MB in floating point; the division by 2^20 is exact there, so
\* the comparison is the integer one.
MaxFileSizeBytes == MAX_FILE_SIZE_MB * BytesPerMB

\* '..' in str(pdf_path): two adjacent "." characters of the raw string.
HasDotDot(raw) == \E i \in 1..(Len(raw) - 1) : raw[i] = "." /\ raw[i + 1] = "."

\* Path(pdf_path).resolve() raises (ValueError: embedded null byte).
ResolveFails(raw) == \E i \in 1..Len(raw) : raw[i] = "NUL"

\* The components of a raw path: the runs between "/" characters, empty runs dropped.
RECURSIVE SplitPath(_, _, _)
SplitPath(raw, i, cur) ==
    IF i > Len(raw)
    THEN (IF cur = << >> THEN << >> ELSE << cur >>)
    ELSE IF raw[i] = "/"
         THEN (IF cur = << >> THEN << >> ELSE << cur >>) \o SplitPath(raw, i + 1, << >>)
         ELSE SplitPath(raw, i + 1, Append(cur, raw[i]))

\* Normalisation: "." is dropped, ".." removes the component before it (the root
\* is its own parent), anything else is kept.
RECURSIVE Normalise(_, _, _)
Normalise(comps, i, stack) ==
    IF i > Len(comps) THEN stack
    ELSE IF comps[i] = << "." >> THEN Normalise(comps, i + 1, stack)
    ELSE IF comps[i] = << ".", "." >>
         THEN Normalise(comps, i + 1,
                        IF stack = << >> THEN << >> ELSE SubSeq(stack, 1, Len(stack) - 1))
         ELSE Normalise(comps, i + 1, Append(stack, comps[i]))

\* The path without its symbolic links followed: absolute and normalised.
Lexical(raw) ==
    Normalise(SplitPath(raw, 1, << >>), 1,
              IF Len(raw) > 0 /\ raw[1] = "/" THEN << >> ELSE Cwd)

\* Path(pdf_path).resolve(): absolute, normalised, and with a symbolic link at
\* the last component (fs.link names its target, a sibling) followed.
Resolve(raw, fs) ==
    LET lex == Lexical(raw)
    IN  IF fs.link # None /\ lex # << >>
        THEN SubSeq(lex, 1, Len(lex) - 1) \o << fs.link[1] >>
        ELSE lex

\* Path.name: the last component ('' for the root).
PathName(path) == IF path = << >> THEN << >> ELSE path[Len(path)]

\* The index of the last "." of a name, 0 when it has none (str.rfind + 1).
LastDot(name) ==
    LET dots == {i \in 1..Len(name) : name[i] = "."}
    IN  IF dots = {} THEN 0 ELSE CHOOSE i \in dots : \A j \in dots : j <= i

\* Path.suffix: from the last "." on, unless the name starts or ends with it.
Suffix(path) ==
    LET name == PathName(path)
        i == LastDot(name)
    IN  IF 1 < i /\ i < Len(name) THEN SubSeq(name, i, Len(name)) ELSE << >>

\* str.lower()
Lower(s) == [i \in 1..Len(s) |-> IF s[i] = "PDF" THEN "pdf" ELSE s[i]]

ALLOWED_EXTENSIONS == { << ".", "pdf" >> }

Rejected(kind) == [ok |-> FALSE, err |-> kind, path |-> << >>]
Validated(path) == [ok |-> TRUE, err |-> "none", path |-> path]
\* An exception that is not a PDFSecurityError leaves validate_pdf_path: the
\* OSError of a stat call that Path.exists() does not swallow (it swallows only
\* ENOENT, ENOTDIR, EBADF and ELOOP; a file name too long is ENAMETOOLONG).
Escaped(exc) == [ok |-> FALSE, err |-> exc, path |-> << >>]

\* A traversal check that looks only at the start of the raw string.
TraversalTokenAtStart(raw) == Len(raw) >= 2 /\ raw[1] = "." /\ raw[2] = "."

\* if '..' in str(pdf_path)
TraversalToken(raw) == HasDotDot(raw)

\* A size check that also rejects a file exactly at the ceiling.
AtOrOverCeiling(size) == size >= MaxFileSizeBytes

\* file_size_mb > MAX_FILE_SIZE_MB
OverCeiling(size) == size > MaxFileSizeBytes

\* path.suffix.lower() not in ALLOWED_EXTENSIONS
BadExtension(path) == Lower(Suffix(path)) \notin ALLOWED_EXTENSIONS

\* validate_pdf_path with the existence checks made before the traversal check.
ValidateExistenceFirst(raw, fs) ==
    IF raw = << >> THEN Rejected("InvalidPath")
    ELSE IF ResolveFails(raw) THEN Rejected("InvalidFormat")
    ELSE LET path == Resolve(raw, fs)
         IN  IF fs.node = "unreachable" THEN Escaped("OSError")
             ELSE IF fs.node = "missing" THEN Rejected("NotFound")
             ELSE IF fs.node # "file" THEN Rejected("NotAFile")
             ELSE IF TraversalToken(raw) THEN Rejected("Traversal")
             ELSE IF BadExtension(path) THEN Rejected("InvalidType")
             ELSE IF OverCeiling(fs.size) THEN Rejected("TooLarge")
             ELSE Validated(path)

\* validate_pdf_path with the size check made before the extension check.
ValidateSizeFirst(raw, fs) ==
    IF raw = << >> THEN Rejected("InvalidPath")
    ELSE IF ResolveFails(raw) THEN Rejected("InvalidFormat")
    ELSE LET path == Resolve(raw, fs)
         IN  IF TraversalToken(raw) THEN Rejected("Traversal")
             ELSE IF fs.node = "unreachable" THEN Escaped("OSError")
             ELSE IF fs.node = "missing" THEN Rejected("NotFound")
             ELSE IF fs.node # "file" THEN Rejected("NotAFile")
             ELSE IF OverCeiling(fs.size) THEN Rejected("TooLarge")
             ELSE IF BadExtension(path) THEN Rejected("InvalidType")
             ELSE Validated(path)

\* validate_pdf_path: the result is the validated path, or the PDFSecurityError
\* raised (err names which).
ValidatePdfPath(raw, fs) ==
    IF raw = << >> THEN Rejected("InvalidPath")
    ELSE IF ResolveFails(raw) THEN Rejected("InvalidFormat")
    ELSE LET path == Resolve(raw, fs)
         IN  IF TraversalToken(raw) THEN Rejected("Traversal")
             ELSE IF fs.node = "unreachable" THEN Escaped("OSError")
             ELSE IF fs.node = "missing" THEN Rejected("NotFound")
             ELSE IF fs.node # "file" THEN Rejected("NotAFile")
             ELSE IF BadExtension(path) THEN Rejected("InvalidType")
             ELSE IF OverCeiling(fs.size) THEN Rejected("TooLarge")
             ELSE Validated(path)

\* ================================================= the extraction backends
\* str.isspace() for the characters met here.
IsSpace(ch) == ch \in {9, 10, 11, 12, 13, 28, 29, 30, 31, 32, 133, 160}

\* The first character at or after position i that is not a space (Len + 1 when
\* there is none), and the last one at or before position i (0 when none).
RECURSIVE FirstSolid(_, _)
FirstSolid(text, i) ==
    IF i > Len(text) \/ ~IsSpace(text[i]) THEN i ELSE FirstSolid(text, i + 1)
RECURSIVE LastSolid(_, _)
LastSolid(text, i) ==
    IF i < 1 \/ ~IsSpace(text[i]) THEN i ELSE LastSolid(text, i - 1)

\* text.strip()
Strip(text) == SubSeq(text, FirstSolid(text, 1), LastSolid(text, Len(text)))

\* text.startswith(prefix)
StartsWith(text, prefix) ==
    Len(text) >= Len(prefix) /\ SubSeq(text, 1, Len(prefix)) = prefix

\* text.startswith("Error")
StartsWithError(text) == StartsWith(text, << 69, 114, 114, 111, 114 >>)

\* "\n\n".join(parts)
RECURSIVE Join(_)
Join(parts) ==
    IF parts = << >> THEN << >>
    ELSE IF Len(parts) = 1 THEN parts[1]
    ELSE parts[1] \o << 10, 10 >> \o Join(Tail(parts))

\* An adapter that puts no header before a page's text.
PageHeaderNone(number, total) == << >>

\* f"--- Page {i+1}/{total} ---\n" (number is i+1)
PageHeader(number, total) ==
    << 45, 45, 45, 32, 80, 97, 103, 101, 32 >> \o FormatInt(number) \o << 47 >> \o FormatInt(total) \o << 32, 45, 45, 45, 10 >>

\* "(No text extracted)"
NoTextMarker == << 40, 78, 111, 32, 116, 101, 120, 116, 32, 101, 120, 116, 114, 97, 99, 116, 101, 100, 41 >>

\* f"\n[... {more} more pages not extracted (limit: {max_pages}) ...]"
MorePagesNote(more, max_pages) ==
    << 10, 91, 46, 46, 46, 32 >> \o FormatInt(more)
    \o << 32, 109, 111, 114, 101, 32, 112, 97, 103, 101, 115, 32, 110, 111, 116, 32, 101, 120, 116, 114, 97, 99, 116, 101, 100, 32, 40, 108, 105, 109, 105, 116, 58, 32 >>
    \o FormatInt(max_pages) \o << 41, 32, 46, 46, 46, 93 >>

\* f"Error ({backend}): {e}", e being the exception the engine raised.
EngineError(backend, e) ==
    (CASE backend = "PyMuPDF" -> << 69, 114, 114, 111, 114, 32, 40, 80, 121, 77, 117, 80, 68, 70, 41, 58, 32 >>
       [] backend = "pdfplumber" -> << 69, 114, 114, 111, 114, 32, 40, 112, 100, 102, 112, 108, 117, 109, 98, 101, 114, 41, 58, 32 >>
       [] backend = "PyPDF2" -> << 69, 114, 114, 111, 114, 32, 40, 80, 121, 80, 68, 70, 50, 41, 58, 32 >>)
    \o e

\* The messages of the engines' exceptions: a file the engine cannot read, and
\* PyMuPDF's ValueError for len() of a document that has been closed.
CannotRead == << 99, 97, 110, 110, 111, 116, 32, 114, 101, 97, 100 >>
DocumentClosed == << 100, 111, 99, 117, 109, 101, 110, 116, 32, 99, 108, 111, 115, 101, 100 >>

\* `if page_text.strip():` (PyMuPDF's adapter) and `if page_text:` (the others)
HasText(page_text, stripped) ==
    IF stripped THEN Strip(page_text) # << >> ELSE page_text # << >>

\* Page entries made without the marker: an empty page leaves its header alone.
PagePartsWithoutMarker(pages, n, stripped) ==
    [i \in 1..n |-> PageHeader(i, Len(pages)) \o pages[i]]

\* The loop over the first n pages: one entry per page, the page's text after
\* its header, or the marker when the adapter takes the page to have no text.
PageParts(pages, n, stripped) ==
    [i \in 1..n |->
        PageHeader(i, Len(pages))
        \o (IF HasText(pages[i], stripped) THEN pages[i] ELSE NoTextMarker)]

\* What an adapter returns for a document it has read: the entries of the
\* first min(total, max_pages) pages, and the note when pages are left.
JoinedPages(pages, max_pages, stripped) ==
    Join(PageParts(pages, Max(Min(Len(pages), max_pages), 0), stripped)
         \o (IF Len(pages) > max_pages
             THEN << MorePagesNote(Len(pages) - max_pages, max_pages) >>
             ELSE << >>))

\* A document as the engines see it: its pages' texts; for each engine whether
\* it reads the file or raises on it; and what the installed PyMuPDF does with
\* len(doc) once the document is closed (it raises ValueError, or still counts).
\* _extract_with_fitz asks for len(doc) after doc.close().
ExtractWithFitz(doc, max_pages) ==
    IF doc.engine.fitz = "raises" THEN EngineError("PyMuPDF", CannotRead)
    ELSE IF doc.closed_len = "raises" THEN EngineError("PyMuPDF", DocumentClosed)
    ELSE JoinedPages(doc.pages, max_pages, TRUE)

\* The operations _extract_with_fitz performs on the document handle, in order:
\* fitz.open, len(doc) for the page limit, load_page and the len(doc) of the
\* header for each page, doc.close(), then the len(doc) of the test for pages
\* left and, when that test passes, the len(doc) of the note.
FitzOperations(doc, max_pages) ==
    IF doc.engine.fitz = "raises" THEN << "open" >>
    ELSE LET n == Max(Min(Len(doc.pages), max_pages), 0)
         IN  << "open", "len" >>
             \o [k \in 1..(2 * n) |-> IF k % 2 = 1 THEN "load_page" ELSE "len"]
             \o << "close", "len" >>
             \o (IF doc.closed_len = "counts" /\ Len(doc.pages) > max_pages
                 THEN << "len" >> ELSE << >>)

ExtractWithPdfplumber(doc, max_pages) ==
    IF doc.engine.pdfplumber = "raises" THEN EngineError("pdfplumber", CannotRead)
    ELSE JoinedPages(doc.pages, max_pages, FALSE)

ExtractWithPypdf2(doc, max_pages) ==
    IF doc.engine.pypdf2 = "raises" THEN EngineError("PyPDF2", CannotRead)
    ELSE JoinedPages(doc.pages, max_pages, FALSE)

ExtractWith(backend, doc, max_pages) ==
    CASE backend = "PyMuPDF" -> ExtractWithFitz(doc, max_pages)
      [] backend = "pdfplumber" -> ExtractWithPdfplumber(doc, max_pages)
      [] backend = "PyPDF2" -> ExtractWithPypdf2(doc, max_pages)

\* ================================================== extract_text_from_pdf
\* FITZ_AVAILABLE, PDFPLUMBER_AVAILABLE, PYPDF2_AVAILABLE
Available(backend, avail) ==
    CASE backend = "PyMuPDF" -> avail.fitz
      [] backend = "pdfplumber" -> avail.pdfplumber
      [] backend = "PyPDF2" -> avail.pypdf2

\* An order that tries pdfplumber before PyMuPDF.
BackendOrderPdfplumberFirst == << "pdfplumber", "PyMuPDF", "PyPDF2" >>

\* The order the backends are tried in.
BackendOrder == << "PyMuPDF", "pdfplumber", "PyPDF2" >>

\* The test a backend's text must pass to be returned: for PyMuPDF and
\* pdfplumber `text and not text.startswith("Error") and len(text.strip()) > 10`,
\* for PyPDF2 `text and not text.startswith("Error")`.
Accepted(backend, text) ==
    /\ text # << >>
    /\ ~StartsWithError(text)
    /\ backend # "PyPDF2" => Len(Strip(text)) > 10

\* `x or default`: the default replaces None and 0.
OrDefault(opt, default) == IF opt = None \/ opt[1] = 0 THEN default ELSE opt[1]

\* The message of a PDFSecurityError (what is interpolated after it is left out).
SecurityMessage(kind) ==
    CASE kind = "InvalidPath" -> << 73, 110, 118, 97, 108, 105, 100, 32, 112, 97, 116, 104, 58, 32, 80, 97, 116, 104, 32, 109, 117, 115, 116, 32, 98, 101, 32, 97, 32, 110, 111, 110, 45, 101, 109, 112, 116, 121, 32, 115, 116, 114, 105, 110, 103 >>
      [] kind = "InvalidFormat" -> << 73, 110, 118, 97, 108, 105, 100, 32, 112, 97, 116, 104, 32, 102, 111, 114, 109, 97, 116, 58, 32 >>
      [] kind = "Traversal" -> << 83, 101, 99, 117, 114, 105, 116, 121, 32, 101, 114, 114, 111, 114, 58, 32, 80, 97, 116, 104, 32, 116, 114, 97, 118, 101, 114, 115, 97, 108, 32, 100, 101, 116, 101, 99, 116, 101, 100 >>
      [] kind = "NotFound" -> << 70, 105, 108, 101, 32, 110, 111, 116, 32, 102, 111, 117, 110, 100, 58, 32 >>
      [] kind = "NotAFile" -> << 78, 111, 116, 32, 97, 32, 102, 105, 108, 101, 58, 32 >>
      [] kind = "InvalidType" -> << 73, 110, 118, 97, 108, 105, 100, 32, 102, 105, 108, 101, 32, 116, 121, 112, 101, 58, 32 >>
      [] kind = "TooLarge" -> << 70, 105, 108, 101, 32, 116, 111, 111, 32, 108, 97, 114, 103, 101, 58, 32 >>

\* The string extract_text_from_pdf returns, with the adapters it called and
\* what each returned (calls) and the backend whose text it accepted.
ExtractReturn(text, calls, accepted) ==
    [raised |-> FALSE, text |-> text, calls |-> calls, accepted |-> accepted]
\* An exception leaves extract_text_from_pdf.
ExtractRaise(exc) ==
    [raised |-> TRUE, text |-> << >>, calls |-> << >>, accepted |-> "none"]

\* The backends from the k-th on, `text` being what the last adapter called
\* returned ("" when none was called).
RECURSIVE TryBackends(_, _, _, _, _, _)
TryBackends(k, text, calls, avail, doc, limits) ==
    IF k > Len(BackendOrder)
    THEN IF ~(avail.fitz \/ avail.pdfplumber \/ avail.pypdf2)
         THEN ExtractReturn(<< 69, 114, 114, 111, 114, 58, 32, 78, 111, 32, 80, 68, 70, 32, 101, 120, 116, 114, 97, 99, 116, 105, 111, 110, 32, 108, 105, 98, 114, 97, 114, 121, 32, 97, 118, 97, 105, 108, 97, 98, 108, 101, 46, 32, 73, 110, 115, 116, 97, 108, 108, 32, 80, 121, 77, 117, 80, 68, 70, 44, 32, 112, 100, 102, 112, 108, 117, 109, 98, 101, 114, 44, 32, 111, 114, 32, 80, 121, 80, 68, 70, 50, 46 >>,
                            calls, "none")
         ELSE ExtractReturn(IF text # << >> THEN text
                            ELSE << 69, 114, 114, 111, 114, 58, 32, 67, 111, 117, 108, 100, 32, 110, 111, 116, 32, 101, 120, 116, 114, 97, 99, 116, 32, 116, 101, 120, 116, 32, 102, 114, 111, 109, 32, 80, 68, 70 >>,
                            calls, "none")
    ELSE IF ~Available(BackendOrder[k], avail)
         THEN TryBackends(k + 1, text, calls, avail, doc, limits)
         ELSE LET backend == BackendOrder[k]
                  got == ExtractWith(backend, doc, limits.max_pages)
                  called == Append(calls, [backend |-> backend, text |-> got])
              IN  IF Accepted(backend, got)
                  THEN ExtractReturn(TruncateText(got, limits.max_length).text,
                                     called, backend)
                  ELSE TryBackends(k + 1, got, called, avail, doc, limits)

\* extract_text_from_pdf(pdf_path, max_pages, max_length), the filesystem, the
\* installed backends and the document being part of the input.
ExtractTextFromPdf(input) ==
    LET v == ValidatePdfPath(input.raw, input.fs)
    IN  IF v.ok
        THEN TryBackends(1, << >>, << >>, input.avail, input.doc,
                         [max_pages |-> OrDefault(input.max_pages, MAX_PAGES),
                          max_length |-> OrDefault(input.max_length, MAX_TEXT_LENGTH)])
        ELSE IF v.err = "OSError" THEN ExtractRaise(v.err)
        ELSE ExtractReturn(<< 69, 114, 114, 111, 114, 58, 32 >> \o SecurityMessage(v.err), << >>, "none")

\* ---- the inputs validate_pdf_path is tried on
RawPaths == UNION {[1..n -> Tokens] : n \in 0..MaxPathLen}
FileSizes == {0, MaxFileSizeBytes - 1, MaxFileSizeBytes, MaxFileSizeBytes + 1}
LinkTargets == {None, Some(<< "txt", ".", "pdf" >>), Some(<< "pdf", ".", "txt" >>)}
FsFacts == [node : {"missing", "unreachable", "dir", "file"}, size : FileSizes,
            link : LinkTargets]

\* What a filesystem can hold at the place a raw path names: only a regular file
\* has a size; the root and the working directory are directories; a path that
\* does not resolve names nothing. "unreachable": stat fails on the path with an
\* OSError other than file-not-found.
PossibleFs(raw, fs) ==
    /\ fs.node # "file" => fs.size = 0
    /\ (raw = << >> \/ ResolveFails(raw)) => fs.node = "missing" /\ fs.link = None
    /\ ~ResolveFails(raw) /\ Lexical(raw) \in {<< >>, Cwd} => fs.node = "dir" /\ fs.link = None

BatchIdle ==
    /\ urls = << >> /\ max_concurrent = 0 /\ pc = "idle" /\ sem = 0
    /\ st = << >> /\ taskOutcome = << >> /\ cause = << >> /\ chainCalls = << >>
    /\ doneOrder = << >>
    /\ downloads = << >> /\ results = << >> /\ processed_results = << >>
    /\ summary = None

InitV ==
    /\ BatchIdle /\ TruncIdle /\ ExtractIdle /\ LangIdle /\ ProcIdle
    /\ SaveIdle /\ ChatIdle /\ AgentIdle
    /\ vraw \in RawPaths
    /\ vfs \in FsFacts
    /\ PossibleFs(vraw, vfs)
    /\ vres = None

Validate ==
    /\ vres = None
    /\ vres' = Some(ValidatePdfPath(vraw, vfs))
    /\ UNCHANGED << vraw, vfs >>
    /\ UNCHANGED << batchVars, truncVars, extractVars, langVars, procVars,
                    saveVars, chatVars, agentVars >>

NextV == Validate

SpecV == InitV /\ [][NextV]_vars

\* ---- truncate_text called on a text, and again on what it returned
InitT ==
    /\ BatchIdle /\ PathIdle /\ ExtractIdle /\ LangIdle /\ ProcIdle
    /\ SaveIdle /\ ChatIdle /\ AgentIdle
    /\ ttext \in TruncTexts
    /\ tmax \in TruncLimits
    /\ tout = << >>

Truncate ==
    /\ tout = << >>
    /\ tout' = << TruncateText(ttext, tmax) >>
    /\ UNCHANGED << ttext, tmax >>
    /\ UNCHANGED << batchVars, pathVars, extractVars, langVars, procVars,
                    saveVars, chatVars, agentVars >>

TruncateAgain ==
    /\ Len(tout) = 1
    /\ tout' = Append(tout, TruncateText(tout[1].text, tmax))
    /\ UNCHANGED << ttext, tmax >>
    /\ UNCHANGED << batchVars, pathVars, extractVars, langVars, procVars,
                    saveVars, chatVars, agentVars >>

NextT == Truncate \/ TruncateAgain

SpecT == InitT /\ [][NextT]_vars

\* ---- extract_text_from_pdf called on its own
\* The texts a page can have: none, a blank, a letter.
PageTexts == {<< >>, << 32 >>, << 97 >>}
Documents ==
    [pages : UNION {[1..n -> PageTexts] : n \in 0..MaxDocPages} \cup {Repeat(<< >>, 50)},
     engine : [fitz : {"reads", "raises"}, pdfplumber : {"reads", "raises"},
               pypdf2 : {"reads", "raises"}],
     closed_len : {"raises", "counts"}]
Availabilities == [fitz : BOOLEAN, pdfplumber : BOOLEAN, pypdf2 : BOOLEAN]
\* max_pages and max_length as the caller gives them.
PageLimits == {None, Some(0), Some(1), Some(10)}
LengthLimits == {None, Some(25)}
\* A PDF that validates, and paths that do not: a missing file, a path that
\* holds '..', a file whose stat fails.
PdfFile == [raw |-> << "pdf", ".", "pdf" >>, fs |-> [node |-> "file", size |-> 0, link |-> None]]
BadPaths ==
    {[raw |-> << "pdf", ".", "pdf" >>, fs |-> [node |-> "missing", size |-> 0, link |-> None]],
     [raw |-> << ".", ".", "/", "pdf" >>, fs |-> [node |-> "file", size |-> 0, link |-> None]],
     [raw |-> << "pdf", ".", "pdf" >>, fs |-> [node |-> "unreachable", size |-> 0, link |-> None]]}
NoDocument ==
    [pages |-> << >>,
     engine |-> [fitz |-> "reads", pdfplumber |-> "reads", pypdf2 |-> "reads"],
     closed_len |-> "raises"]

ExtractInput(file, max_pages, max_length, avail, doc) ==
    [raw |-> file.raw, fs |-> file.fs, max_pages |-> max_pages,
     max_length |-> max_length, avail |-> avail, doc |-> doc]

InitX ==
    /\ BatchIdle /\ PathIdle /\ TruncIdle /\ LangIdle /\ ProcIdle
    /\ SaveIdle /\ ChatIdle /\ AgentIdle
    /\ xin \in {Some(ExtractInput(PdfFile, mp, ml, av, d)) :
                    mp \in PageLimits, ml \in LengthLimits, av \in Availabilities,
                    d \in Documents}
               \cup {Some(ExtractInput(f, None, None, av, NoDocument)) :
                         f \in BadPaths, av \in Availabilities}
    /\ xout = None

Extract ==
    /\ xout = None
    /\ xout' = Some(ExtractTextFromPdf(xin[1]))
    /\ UNCHANGED xin
    /\ UNCHANGED << batchVars, pathVars, truncVars, langVars, procVars,
                    saveVars, chatVars, agentVars >>

NextX == Extract

SpecX == InitX /\ [][NextX]_vars

\* ============================== detect_languages, detect_legacy_font, status
\* A sinhala range that leaves out its last code point.
IsSinhalaOpenEnded(ch) == 3456 <= ch /\ ch < 3583

\* '\u0D80' <= char <= '\u0DFF'
IsSinhala(ch) == 3456 <= ch /\ ch <= 3583
\* '\u0B80' <= char <= '\u0BFF'
IsTamil(ch) == 2944 <= ch /\ ch <= 3071
\* char.isascii() and char.isalpha()
IsAsciiAlpha(ch) == (65 <= ch /\ ch <= 90) \/ (97 <= ch /\ ch <= 122)

\* detect_languages(text)
DetectLanguages(text) ==
    [has_sinhala |-> \E i \in 1..Len(text) : IsSinhala(text[i]),
     has_tamil |-> \E i \in 1..Len(text) : IsTamil(text[i]),
     has_english |-> \E i \in 1..Len(text) : IsAsciiAlpha(text[i])]

\* pattern in text
Contains(text, pattern) ==
    \E i \in 1..(Len(text) - Len(pattern) + 1) :
        SubSeq(text, i, i + Len(pattern) - 1) = pattern

\* fm_patterns = [';a', ';s', ';j', ';d', ';l', ';k', 'WIaK', 'fld', 'fjk']
FmPatterns ==
    << << 59, 97 >>, << 59, 115 >>, << 59, 106 >>, << 59, 100 >>, << 59, 108 >>, << 59, 107 >>, << 87, 73, 97, 75 >>, << 102, 108, 100 >>, << 102, 106, 107 >> >>

\* sum(1 for p in fm_patterns if p in text)
FmCount(text) == Cardinality({p \in 1..Len(FmPatterns) : Contains(text, FmPatterns[p])})

\* text.count(';')
SemicolonCount(text) == Cardinality({i \in 1..Len(text) : text[i] = 59})

\* semicolon_ratio > 0.03, the ratio being count / total for total > 0. The
\* float quotient is above the float 0.03 exactly when count / total > 3 / 100.
RatioOverThreshold(count, total) == count * 100 > 3 * total

\* A length test that also turns away a text of exactly 20 characters.
TooShortAtTwenty(text) == Len(text) <= 20

\* `not text or len(text) < 20`
TooShort(text) == text = << >> \/ Len(text) < 20

\* detect_legacy_font(text)
DetectLegacyFont(text) ==
    IF TooShort(text) THEN FALSE
    ELSE IF \E i \in 1..Len(text) : IsSinhala(text[i]) THEN FALSE
    ELSE RatioOverThreshold(SemicolonCount(text), Len(text)) \/ FmCount(text) >= 3

\* A status that looks at the legacy flag last.
GetUnicodeStatusLegacyLast(languages, is_legacy) ==
    IF languages.has_sinhala THEN "VALID (Sinhala Unicode)"
    ELSE IF languages.has_tamil THEN "VALID (Tamil Unicode)"
    ELSE IF languages.has_english THEN "VALID (English)"
    ELSE IF is_legacy THEN "INVALID (Legacy Font)"
    ELSE "UNKNOWN"

\* get_unicode_status(languages, is_legacy)
GetUnicodeStatus(languages, is_legacy) ==
    IF is_legacy THEN "INVALID (Legacy Font)"
    ELSE IF languages.has_sinhala THEN "VALID (Sinhala Unicode)"
    ELSE IF languages.has_tamil THEN "VALID (Tamil Unicode)"
    ELSE IF languages.has_english THEN "VALID (English)"
    ELSE "UNKNOWN"

\* ---- the three called on a text, as process_pdf calls them
\* Short texts over the characters at the edges of the three ranges, and others.
EdgeChars ==
    {2943, 2944, 3071, 3072, 3455, 3456, 3583, 3584,
     64, 65, 90, 91, 96, 97, 122, 123, 233, 49, 32, 59}
ShortTexts == UNION {[1..n -> EdgeChars] : n \in 0..MaxChars}
\* Long texts: runs of ';', 'x', a sinhala and a tamil letter, and fragments
\* holding legacy-font patterns.
LegacyRunLengths == {1, 3, 9, 10, 32, 33, 97}
LegacyRuns ==
    {Repeat(ch, n) : ch \in {59, 120, 3461, 2949}, n \in LegacyRunLengths}
    \cup {<< 59, 97, 59, 115, 59, 106 >>, << 59, 97, 59, 115 >>, << 102, 108, 100, 102, 106, 107, 87, 73, 97, 75 >>, << 102, 108, 100, 102, 106, 107 >>}
LongTexts == TextsOfRuns(LegacyRuns, MaxRuns)

InitL ==
    /\ BatchIdle /\ PathIdle /\ TruncIdle /\ ExtractIdle /\ ProcIdle
    /\ SaveIdle /\ ChatIdle /\ AgentIdle
    /\ ltext \in ShortTexts \cup LongTexts
    /\ llang = None /\ llegacy = None /\ lstatus = None

\* languages = self.detect_languages(text)
DetectLanguagesCall ==
    /\ llang = None
    /\ llang' = Some(DetectLanguages(ltext))
    /\ UNCHANGED << ltext, llegacy, lstatus >>
    /\ UNCHANGED << batchVars, pathVars, truncVars, extractVars, procVars,
                    saveVars, chatVars, agentVars >>

\* is_legacy = self.detect_legacy_font(text)
DetectLegacyFontCall ==
    /\ llang # None /\ llegacy = None
    /\ llegacy' = Some(DetectLegacyFont(ltext))
    /\ UNCHANGED << ltext, llang, lstatus >>
    /\ UNCHANGED << batchVars, pathVars, truncVars, extractVars, procVars,
                    saveVars, chatVars, agentVars >>

\* unicode_status = self.get_unicode_status(languages, is_legacy)
GetUnicodeStatusCall ==
    /\ llegacy # None /\ lstatus = None
    /\ lstatus' = Some(GetUnicodeStatus(llang[1], llegacy[1]))
    /\ UNCHANGED << ltext, llang, llegacy >>
    /\ UNCHANGED << batchVars, pathVars, truncVars, extractVars, procVars,
                    saveVars, chatVars, agentVars >>

NextL == DetectLanguagesCall \/ DetectLegacyFontCall \/ GetUnicodeStatusCall

SpecL == InitL /\ [][NextL]_vars

\* ================================================== the pipeline (pipeline.py)
\* A failed result that keeps no error.
FailureWithoutError(file_path, error) ==
    [success |-> FALSE, file_path |-> file_path, text |-> None, metadata |-> None,
     error |-> None]

\* PipelineResult(success=False, ..., error=error)
Failure(file_path, error) ==
    [success |-> FALSE, file_path |-> file_path, text |-> None, metadata |-> None,
     error |-> Some(error)]

\* PipelineResult(success=True, ...), error left at its default None
Success(file_path, text, metadata) ==
    [success |-> TRUE, file_path |-> Some(file_path), text |-> Some(text),
     metadata |-> Some(metadata), error |-> None]

\* ---- process_pdf
\* str(validated_path): the components of an absolute path, each after a "/".
RECURSIVE Slashed(_)
Slashed(path) ==
    IF path = << >> THEN << >> ELSE << "/" >> \o path[1] \o Slashed(Tail(path))
PathStr(path) == IF path = << >> THEN << "/" >> ELSE Slashed(path)

\* What the filesystem holds at str(validated_path) when get_pdf_info ("info")
\* and extract_text_from_pdf ("extract") look again: what validate_pdf_path
\* found, unless the file has been removed since (input.gone says before which
\* step). The validated path is resolved: it is no symbolic link.
FsAt(input, step) ==
    IF input.gone = "before_info" \/ (input.gone = "before_extract" /\ step = "extract")
    THEN [node |-> "missing", size |-> 0, link |-> None]
    ELSE [input.fs EXCEPT !.link = None]

\* round(st_size / (1024 * 1024), 2), in hundredths of a megabyte.
FileSizeMb(size) == (size * 100 + (BytesPerMB \div 2)) \div BytesPerMB

\* The page count get_pdf_info reads: that of the first installed backend that
\* opens the document, 0 when none does.
PageCount(avail, doc) ==
    IF avail.fitz /\ doc.engine.fitz = "reads" THEN Len(doc.pages)
    ELSE IF avail.pdfplumber /\ doc.engine.pdfplumber = "reads" THEN Len(doc.pages)
    ELSE IF avail.pypdf2 /\ doc.engine.pypdf2 = "reads" THEN Len(doc.pages)
    ELSE 0

\* get_pdf_info(pdf_path): it validates the path again.
GetPdfInfo(raw, fs, avail, doc) ==
    LET v == ValidatePdfPath(raw, fs)
    IN  IF v.ok
        THEN [is_valid |-> TRUE, raised |-> FALSE, error |-> << >>,
              file_size_mb |-> FileSizeMb(fs.size), page_count |-> PageCount(avail, doc)]
        ELSE [is_valid |-> FALSE, raised |-> v.err = "OSError",
              error |-> IF v.err = "OSError" THEN << >> ELSE SecurityMessage(v.err),
              file_size_mb |-> 0, page_count |-> 0]

\* str(e) of the OSError of a failed stat.
OSErrorMessage == << 70, 105, 108, 101, 32, 110, 97, 109, 101, 32, 116, 111, 111, 32, 108, 111, 110, 103 >>

\* A test that knows only the errors written "Error: ...".
IsErrorTextWithColon(text) == StartsWith(text, << 69, 114, 114, 111, 114, 58 >>)

\* if text.startswith("Error")
IsErrorText(text) == StartsWithError(text)

\* What a call of process_pdf did: the result it returned, the backends the
\* extraction invoked, the text the extraction returned (None when it was not
\* reached), whether the language and legacy detection ran, and whether the
\* result was appended to self.results.
ProcessRun(result, invoked, extracted, detected) ==
    [result |-> result, invoked |-> invoked, extracted |-> extracted,
     detected |-> detected, stored |-> result.success]

\* process_pdf(pdf_path, source_url)
ProcessPdf(input) ==
    LET v == ValidatePdfPath(input.raw, input.fs)
    IN  IF ~v.ok
        THEN ProcessRun(
                 Failure(Some(input.raw),
                         IF v.err = "OSError"
                         THEN << 69, 114, 114, 111, 114, 58, 32 >> \o OSErrorMessage
                         ELSE << 83, 101, 99, 117, 114, 105, 116, 121, 32, 69, 114, 114, 111, 114, 58, 32 >> \o SecurityMessage(v.err)),
                 << >>, None, FALSE)
        ELSE
        LET path == PathStr(v.path)
            info == GetPdfInfo(path, FsAt(input, "info"), input.avail, input.doc)
        IN  IF info.raised
            THEN ProcessRun(Failure(Some(input.raw), << 69, 114, 114, 111, 114, 58, 32 >> \o OSErrorMessage),
                            << >>, None, FALSE)
            ELSE IF ~info.is_valid
            THEN ProcessRun(Failure(Some(path), info.error), << >>, None, FALSE)
            ELSE
            LET x == ExtractTextFromPdf(
                         [raw |-> path, fs |-> FsAt(input, "extract"),
                          max_pages |-> None, max_length |-> Some(input.max_text_length),
                          avail |-> input.avail, doc |-> input.doc])
            IN  IF x.raised
                THEN ProcessRun(Failure(Some(input.raw), << 69, 114, 114, 111, 114, 58, 32 >> \o OSErrorMessage),
                                << >>, None, FALSE)
                ELSE IF IsErrorText(x.text)
                THEN ProcessRun(Failure(Some(path), x.text),
                                [k \in 1..Len(x.calls) |-> x.calls[k].backend],
                                Some(x.text), FALSE)
                ELSE
                LET languages == DetectLanguages(x.text)
                    is_legacy == DetectLegacyFont(x.text)
                IN  ProcessRun(
                        Success(path, x.text,
                                [file_name |-> PathName(v.path),
                                 file_path |-> path,
                                 file_size_mb |-> info.file_size_mb,
                                 page_count |-> info.page_count,
                                 text_length |-> Len(x.text),
                                 has_sinhala |-> languages.has_sinhala,
                                 has_tamil |-> languages.has_tamil,
                                 has_english |-> languages.has_english,
                                 is_legacy_font |-> is_legacy,
                                 unicode_status |-> GetUnicodeStatus(languages, is_legacy),
                                 source_url |-> input.source_url]),
                        [k \in 1..Len(x.calls) |-> x.calls[k].backend],
                        Some(x.text), TRUE)

\* ---- process_pdf called on its own
ProcessInput(file, gone, source_url, max_text_length, avail, doc) ==
    [raw |-> file.raw, fs |-> file.fs, gone |-> gone, source_url |-> source_url,
     max_text_length |-> max_text_length, avail |-> avail, doc |-> doc]

\* Paths that do not validate: the ones above, a PDF over the size ceiling, a
\* file that is no PDF, and the empty path.
BadPdfPaths ==
    BadPaths \cup
    {[raw |-> << "pdf", ".", "pdf" >>,
      fs |-> [node |-> "file", size |-> MaxFileSizeBytes + 1, link |-> None]],
     [raw |-> << "pdf", ".", "txt" >>, fs |-> [node |-> "file", size |-> 0, link |-> None]],
     [raw |-> << >>, fs |-> [node |-> "missing", size |-> 0, link |-> None]]}

InitP ==
    /\ BatchIdle /\ PathIdle /\ TruncIdle /\ ExtractIdle /\ LangIdle
    /\ SaveIdle /\ ChatIdle /\ AgentIdle
    /\ pin \in {Some(ProcessInput(PdfFile, g, u, ml, av, d)) :
                    g \in {"never", "before_info", "before_extract"},
                    u \in {None, Some(1)}, ml \in {MAX_TEXT_LENGTH, 25},
                    av \in Availabilities, d \in Documents}
               \cup {Some(ProcessInput(f, "never", None, MAX_TEXT_LENGTH, av, NoDocument)) :
                         f \in BadPdfPaths, av \in Availabilities}
    /\ pout = None

Process ==
    /\ pin # None /\ pout = None
    /\ pout' = Some(ProcessPdf(pin[1]))
    /\ UNCHANGED pin
    /\ UNCHANGED << batchVars, pathVars, truncVars, extractVars, langVars,
                    saveVars, chatVars, agentVars >>

NextP == Process

SpecP == InitP /\ [][NextP]_vars

\* ---- the downloads directory
\* A PDF of downloads_dir: doc names the remote document it holds (0: a file that
\* was there before the batch), kind what process_pdf will find in it.
FileKinds == {"good", "corrupt", "toolarge"}
DocName(doc) == [j \in 1..(doc + 1) |-> "doc"]
FileName(file) == DocName(file.doc) \o << ".", "pdf" >>
\* str(latest_pdf): the file under downloads_dir
FilePath(file) == << "downloads", "/" >> \o FileName(file)
\* What the filesystem holds for a file of downloads_dir.
FileFs(file) ==
    [node |-> "file",
     size |-> IF file.kind = "toolarge" THEN MaxFileSizeBytes + 1 ELSE 0,
     link |-> None]
\* The document of a file: one page, whose text tells the documents apart; no
\* engine reads a corrupt file. All three backends are installed, with a
\* PyMuPDF that raises on len() of a closed document.
FileDocument(file) ==
    [pages |-> << Repeat(97, file.doc + 1) >>,
     engine |-> IF file.kind = "corrupt"
                THEN [fitz |-> "raises", pdfplumber |-> "raises", pypdf2 |-> "raises"]
                ELSE [fitz |-> "reads", pdfplumber |-> "reads", pypdf2 |-> "reads"],
     closed_len |-> "raises"]
\* self.process_pdf(str(latest_pdf), source_url=url)
FileInput(file, source_url) ==
    [raw |-> FilePath(file), fs |-> FileFs(file), gone |-> "never",
     source_url |-> source_url, max_text_length |-> MAX_TEXT_LENGTH,
     avail |-> [fitz |-> TRUE, pdfplumber |-> TRUE, pypdf2 |-> TRUE],
     doc |-> FileDocument(file)]

\* Which step of process_pdf failed on a file ("none": it succeeded).
ProcessPdfCause(file) ==
    LET run == ProcessPdf(FileInput(file, None))
    IN  IF run.result.success THEN "none"
        ELSE IF run.extracted = None THEN "validation"
        ELSE "extraction"

\* ---- batch_process_async
Items == 1..Len(urls)

\* What a task ended with: the PipelineResult it returned, or the exception it raised.
Returned(result) == [raised |-> FALSE, value |-> Some(result), exc |-> << >>]
Raised(exc) == [raised |-> TRUE, value |-> None, exc |-> exc]

\* A semaphore that lets a task in while its counter is not negative.
AcquirableOffByOne(value) == value >= 0

\* asyncio.Semaphore: acquire succeeds while the counter is positive.
Acquirable(value) == value > 0

\* The items holding the limiter: acquired and not yet released.
InFlight == {i \in Items : st[i] \in {"running", "downloaded", "hung"}}

\* gather with its default, return_exceptions=False.
ReturnExceptionsDefault == FALSE

\* gather(*tasks, return_exceptions=True)
ReturnExceptions == TRUE

\* The results in the order the tasks finished.
ResultsAsCompleted(outcomes, order) == [k \in 1..Len(order) |-> outcomes[order[k]][1]]

\* asyncio.gather: the results in the order the awaitables were passed.
GatherResults(outcomes, order) == [i \in 1..Len(outcomes) |-> outcomes[i][1]]

\* The loop over enumerate(results): an exception becomes a failed PipelineResult.
ProcessedResult(outcome) ==
    IF outcome.raised THEN Failure(None, outcome.exc) ELSE outcome.value[1]

\* save_all_results: the summary built from self.results.
SummaryEntry(result) ==
    IF result.metadata # None
    THEN result.metadata[1]
    ELSE [file_path |-> result.file_path, success |-> FALSE, error |-> result.error]

MakeSummary(rs) ==
    [total_files |-> Len(rs),
     successful |-> Cardinality({k \in 1..Len(rs) : rs[k].success}),
     failed |-> Cardinality({k \in 1..Len(rs) : ~rs[k].success}),
     results |-> [k \in 1..Len(rs) |-> SummaryEntry(rs[k])]]

\* The downloads directory before the batch: empty, or holding one older PDF.
InitialDownloads == {<< >>} \cup {<< [doc |-> 0, kind |-> k] >> : k \in {"good"}}

Init ==
    /\ PathIdle /\ TruncIdle /\ ExtractIdle /\ LangIdle /\ ProcIdle
    /\ SaveIdle /\ ChatIdle /\ AgentIdle
    /\ \E n \in 0..MaxUrls : urls = [i \in 1..n |-> i]
    /\ max_concurrent \in -1..MaxConc
    /\ pc = "start"
    /\ sem = 0
    /\ st = [i \in 1..Len(urls) |-> "created"]
    /\ taskOutcome = [i \in 1..Len(urls) |-> None]
    /\ cause = [i \in 1..Len(urls) |-> "none"]
    /\ chainCalls = [i \in 1..Len(urls) |-> << >>]
    /\ doneOrder = << >>
    /\ downloads \in InitialDownloads
    /\ results = << >>
    /\ processed_results = << >>
    /\ summary = None

\* semaphore = asyncio.Semaphore(max_concurrent), which raises ValueError for a
\* negative value; then the tasks are created and gathered.
Start ==
    /\ pc = "start"
    /\ IF max_concurrent < 0
       THEN pc' = "raised" /\ UNCHANGED << sem, st >>
       ELSE /\ pc' = "gather"
            /\ sem' = max_concurrent
            /\ st' = [i \in Items |-> "waiting"]
    /\ UNCHANGED << urls, max_concurrent, taskOutcome, cause, doneOrder, downloads,
                    results, processed_results, summary >>
    /\ UNCHANGED chainCalls
    /\ UNCHANGED funVars

\* async with semaphore: entered.
Acquire(i) ==
    /\ pc = "gather" /\ st[i] = "waiting"
    /\ Acquirable(sem)
    /\ sem' = sem - 1
    /\ st' = [st EXCEPT ![i] = "running"]
    /\ UNCHANGED << urls, max_concurrent, pc, taskOutcome, cause, doneOrder, downloads,
                    results, processed_results, summary >>
    /\ UNCHANGED chainCalls
    /\ UNCHANGED funVars

\* A task that ends without giving its permit back.
FinishWithoutRelease(i, outcome, why) ==
    /\ st' = [st EXCEPT ![i] = "done"]
    /\ taskOutcome' = [taskOutcome EXCEPT ![i] = Some(outcome)]
    /\ cause' = [cause EXCEPT ![i] = why]
    /\ doneOrder' = Append(doneOrder, i)
    /\ sem' = sem

\* The task of item i ends: the limiter is released on the way out of
\* `async with`, by a return and by an exception alike.
Finish(i, outcome, why) ==
    /\ st' = [st EXCEPT ![i] = "done"]
    /\ taskOutcome' = [taskOutcome EXCEPT ![i] = Some(outcome)]
    /\ cause' = [cause EXCEPT ![i] = why]
    /\ doneOrder' = Append(doneOrder, i)
    /\ sem' = sem + 1

\* A download_and_process that downloads before it looks at the locator.
CallsDownloadAnyway(rejected) == << "download", "validate_url" >>

\* The calls download_and_process makes up to the download: validate_url, and
\* download when validate_url has not raised.
CallsUntilDownload(rejected) ==
    IF rejected THEN << "validate_url" >> ELSE << "validate_url", "download" >>

\* The calls it makes after a download that returned True: the glob, and
\* process_pdf when the glob found a PDF.
CallsAfterDownload ==
    IF downloads = << >> THEN << "glob" >> ELSE << "glob", "process_pdf" >>

\* download_and_process up to the download: validate_url raises, or download
\* returns False, raises, or returns True.
ValidateUrlRejects(i) ==
    /\ pc = "gather" /\ st[i] = "running"
    /\ Finish(i, Returned(Failure(None, 
                   << 83, 101, 99, 117, 114, 105, 116, 121, 32, 69, 114, 114, 111, 114, 58, 32, 105, 110, 118, 97, 108, 105, 100, 32, 117, 114, 108 >>)), "invalid_url")
    /\ UNCHANGED << urls, max_concurrent, pc, downloads, results, processed_results, summary >>
    /\ chainCalls' = [chainCalls EXCEPT ![i] = CallsUntilDownload(TRUE)]
    /\ UNCHANGED funVars

DownloadReturnsFalse(i) ==
    /\ pc = "gather" /\ st[i] = "running"
    /\ Finish(i, Returned(Failure(None,
                   << 68, 111, 119, 110, 108, 111, 97, 100, 32, 102, 97, 105, 108, 101, 100 >>)), "download_false")
    /\ UNCHANGED << urls, max_concurrent, pc, downloads, results, processed_results, summary >>
    /\ chainCalls' = [chainCalls EXCEPT ![i] = CallsUntilDownload(FALSE)]
    /\ UNCHANGED funVars

DownloadRaises(i) ==
    /\ pc = "gather" /\ st[i] = "running"
    /\ Finish(i, Returned(Failure(None, 
                   << 69, 114, 114, 111, 114, 58, 32, 100, 111, 119, 110, 108, 111, 97, 100, 32, 114, 97, 105, 115, 101, 100 >>)), "download_raised")
    /\ UNCHANGED << urls, max_concurrent, pc, downloads, results, processed_results, summary >>
    /\ chainCalls' = [chainCalls EXCEPT ![i] = CallsUntilDownload(FALSE)]
    /\ UNCHANGED funVars

\* download returns True, having written the locator's document (the newest file
\* of the directory now), or nothing.
DownloadSucceeds(i) ==
    /\ pc = "gather" /\ st[i] = "running"
    /\ \/ \E k \in FileKinds :
            downloads' = SelectSeq(downloads, LAMBDA f : f.doc # urls[i])
                             \o << [doc |-> urls[i], kind |-> k] >>
       \/ downloads' = downloads
    /\ st' = [st EXCEPT ![i] = "downloaded"]
    /\ UNCHANGED << urls, max_concurrent, pc, sem, taskOutcome, cause, doneOrder,
                    results, processed_results, summary >>
    /\ chainCalls' = [chainCalls EXCEPT ![i] = CallsUntilDownload(FALSE)]
    /\ UNCHANGED funVars

\* The download never returns.
DownloadHangs(i) ==
    /\ pc = "gather" /\ st[i] = "running"
    /\ st' = [st EXCEPT ![i] = "hung"]
    /\ UNCHANGED << urls, max_concurrent, pc, sem, taskOutcome, cause, doneOrder, downloads,
                    results, processed_results, summary >>
    /\ chainCalls' = [chainCalls EXCEPT ![i] = CallsUntilDownload(FALSE)]
    /\ UNCHANGED funVars

\* download_and_process_async raises (the executor cannot run the call).
ChainRaises(i) ==
    /\ pc = "gather" /\ st[i] = "running"
    /\ Finish(i, Raised(<< 99, 97, 110, 110, 111, 116, 32, 115, 99, 104, 101, 100, 117, 108, 101, 32, 110, 101, 119, 32, 102, 117, 116, 117, 114, 101, 115 >>), "raised")
    /\ UNCHANGED << urls, max_concurrent, pc, downloads, results, processed_results, summary >>
    /\ UNCHANGED chainCalls
    /\ UNCHANGED funVars

\* max(pdf_files, key=lambda p: p.stat().st_mtime) over downloads_dir.glob("*.pdf")
LatestPdf == downloads[Len(downloads)]

\* process_pdf tabulated over the files a batch's downloads_dir can hold and the
\* locators that can be attached as source_url.
BatchFiles == [doc : 0..MaxUrls, kind : FileKinds]
ProcessPdfOf ==
    [x \in BatchFiles \X (1..MaxUrls) |-> ProcessPdf(FileInput(x[1], Some(x[2]))).result]
    @@ << >>
ProcessPdfCauseOf == [f \in BatchFiles |-> ProcessPdfCause(f)] @@ << >>

\* What download_and_process returns after a download that returned True: the
\* result of process_pdf on the newest PDF of downloads_dir.
ResultAfterDownload(url) ==
    IF downloads = << >>
    THEN Failure(None, 
             << 78, 111, 32, 80, 68, 70, 32, 102, 105, 108, 101, 32, 102, 111, 117, 110, 100, 32, 97, 102, 116, 101, 114, 32, 100, 111, 119, 110, 108, 111, 97, 100 >>)
    ELSE ProcessPdfOf[<< LatestPdf, url >>]

\* The step of the chain that failed there ("none": none did).
CauseAfterDownload ==
    IF downloads = << >> THEN "no_pdf" ELSE ProcessPdfCauseOf[LatestPdf]

\* self.results.append(result), which process_pdf does for a successful result only.
AppendIfSuccessful(rs, result) == IF result.success THEN Append(rs, result) ELSE rs

\* download_and_process after the download: the newest PDF of downloads_dir is
\* given to process_pdf, which appends a successful result to self.results.
SelectAndProcess(i) ==
    /\ pc = "gather" /\ st[i] = "downloaded"
    /\ Finish(i, Returned(ResultAfterDownload(urls[i])), CauseAfterDownload)
    /\ results' = AppendIfSuccessful(results, ResultAfterDownload(urls[i]))
    /\ UNCHANGED << urls, max_concurrent, pc, downloads, processed_results, summary >>
    /\ chainCalls' = [chainCalls EXCEPT ![i] = @ \o CallsAfterDownload]
    /\ UNCHANGED funVars

\* gather returns once every task has ended (with return_exceptions=False it
\* raises as soon as one task has raised); the loop builds the returned list.
Collect ==
    /\ pc = "gather"
    /\ IF ~ReturnExceptions /\ \E i \in Items : taskOutcome[i] # None /\ taskOutcome[i][1].raised
       THEN pc' = "raised" /\ UNCHANGED processed_results
       ELSE /\ \A i \in Items : st[i] = "done"
            /\ pc' = "returned"
            /\ processed_results' =
                 LET gathered == GatherResults(taskOutcome, doneOrder)
                 IN  [i \in 1..Len(gathered) |-> ProcessedResult(gathered[i])]
    /\ UNCHANGED << urls, max_concurrent, sem, st, taskOutcome, cause, doneOrder, downloads,
                    results, summary >>
    /\ UNCHANGED chainCalls
    /\ UNCHANGED funVars

\* The caller saves the run's summary.
SaveAllResults ==
    /\ pc = "returned" /\ summary = None
    /\ summary' = Some(MakeSummary(results))
    /\ UNCHANGED << urls, max_concurrent, pc, sem, st, taskOutcome, cause, doneOrder,
                    downloads, results, processed_results >>
    /\ UNCHANGED chainCalls
    /\ UNCHANGED funVars

Next ==
    \/ Start
    \/ \E i \in Items : Acquire(i)
    \/ \E i \in Items : ValidateUrlRejects(i)
    \/ \E i \in Items : DownloadReturnsFalse(i)
    \/ \E i \in Items : DownloadRaises(i)
    \/ \E i \in Items : DownloadSucceeds(i)
    \/ \E i \in Items : DownloadHangs(i)
    \/ \E i \in Items : ChainRaises(i)
    \/ \E i \in Items : SelectAndProcess(i)
    \/ Collect
    \/ SaveAllResults

Spec == Init /\ [][Next]_vars

\* The event loop and the executor run every step that can be taken.
FairSpec == Init /\ [][Next]_vars /\ WF_vars(Next)

\* ================================================== save_result
\* Path(name).stem: the name without its suffix.
Stem(name) ==
    LET i == LastDot(name)
    IN  IF 1 < i /\ i < Len(name) THEN SubSeq(name, 1, i - 1) ELSE name

\* base_name = Path(result.metadata.file_name).stem
BaseName(result) == Stem(result.metadata[1].file_name)

\* self.output_dir / f"{base_name}_text.txt" and f"{base_name}_metadata.json"
TextPath(result) == << "output", "/" >> \o BaseName(result) \o << "_text.txt" >>
MetaPath(result) == << "output", "/" >> \o BaseName(result) \o << "_metadata.json" >>

\* What is written to the text file: the header lines and the text.
TextFile(result) ==
    [file |-> result.metadata[1].file_name,
     pages |-> result.metadata[1].page_count,
     unicode |-> result.metadata[1].unicode_status,
     text |-> result.text[1]]
\* json.dump(asdict(result.metadata), ...)
MetaFile(result) == result.metadata[1]

\* open(path, 'w') and the writes: the file holds the new content, whatever it held.
WriteFile(dir, path, content) ==
    [q \in (DOMAIN dir) \cup {path} |-> IF q = path THEN content ELSE dir[q]]

\* `if not result.success or not result.metadata: return saved_files`
NothingToSave(result) == ~result.success \/ result.metadata = None
\* `if save_text and result.text`
WritesText(result, save_text) == save_text /\ result.text # None /\ result.text[1] # << >>

\* save_result(result, save_text, save_metadata): the directory afterwards and
\* the mapping returned.
SaveResultDir(dir, result, save_text, save_metadata) ==
    IF NothingToSave(result) THEN dir
    ELSE LET with_text == IF WritesText(result, save_text)
                          THEN WriteFile(dir, TextPath(result), TextFile(result))
                          ELSE dir
         IN  IF save_metadata
             THEN WriteFile(with_text, MetaPath(result), MetaFile(result))
             ELSE with_text
SavedFiles(result, save_text, save_metadata) ==
    IF NothingToSave(result) THEN << >>
    ELSE [k \in {kk \in {"text", "metadata"} :
                    \/ kk = "text" /\ WritesText(result, save_text)
                    \/ kk = "metadata" /\ save_metadata}
            |-> IF k = "text" THEN TextPath(result) ELSE MetaPath(result)]

\* ---- save_result called on the results of process_pdf
\* The source documents: two of the same name in two directories, one of
\* another name, one whose extension is in capitals, and a path with no file.
SourceFiles ==
    << [raw |-> << "/", "a", "/", "report", ".", "pdf" >>, node |-> "file", chars |-> 1],
       [raw |-> << "/", "b", "/", "report", ".", "pdf" >>, node |-> "file", chars |-> 2],
       [raw |-> << "/", "a", "/", "notes", ".", "pdf" >>, node |-> "file", chars |-> 3],
       [raw |-> << "/", "a", "/", "notes", ".", "PDF" >>, node |-> "file", chars |-> 4],
       [raw |-> << "/", "a", "/", "gone", ".", "pdf" >>, node |-> "missing", chars |-> 0] >>
SourceResult(k) ==
    ProcessPdf(ProcessInput(
        [raw |-> SourceFiles[k].raw,
         fs |-> [node |-> SourceFiles[k].node, size |-> 0, link |-> None]],
        "never", None, MAX_TEXT_LENGTH,
        [fitz |-> TRUE, pdfplumber |-> TRUE, pypdf2 |-> TRUE],
        [pages |-> << Repeat(97, SourceFiles[k].chars) >>,
         engine |-> [fitz |-> "reads", pdfplumber |-> "reads", pypdf2 |-> "reads"],
         closed_len |-> "raises"])).result
SourceResults == [k \in 1..Len(SourceFiles) |-> SourceResult(k)] @@ << >>


InitS ==
    /\ BatchIdle /\ PathIdle /\ TruncIdle /\ ExtractIdle /\ LangIdle /\ ProcIdle
    /\ SaveIdle /\ ChatIdle /\ AgentIdle

\* One call of save_result; `saves` keeps the calls made and what each returned.
SaveResult ==
    /\ Len(saves) < MaxSaves
    /\ \E k \in 1..Len(SourceFiles), save_text \in BOOLEAN, save_metadata \in BOOLEAN :
           LET result == SourceResults[k]
           IN  /\ output_dir' = SaveResultDir(output_dir, result, save_text, save_metadata)
               /\ saves' = Append(saves,
                                  [result |-> result, save_text |-> save_text,
                                   save_metadata |-> save_metadata, before |-> output_dir,
                                   returned |-> SavedFiles(result, save_text, save_metadata)])
    /\ UNCHANGED << batchVars, pathVars, truncVars, extractVars, langVars, procVars,
                    chatVars, agentVars >>

NextS == SaveResult

SpecS == InitS /\ [][NextS]_vars

\* ================================================== the chat endpoints (chat.py)
\* The sessions of session_store; a request can name one that is not there.
Sessions == {1}
SessionIds == {1, 2}
\* session_store.session_exists(session_id)
SessionExists(session_id) == session_id \in Sessions

\* message_store.add_message(session_id, role, content): under the store's lock
\* the message is appended to the session's list, which is made when missing.
\* A content is named by the request and the number of the message it belongs to.
AddMessage(store, session_id, role, content) ==
    [s \in (DOMAIN store) \cup {session_id} |->
        IF s = session_id
        THEN (IF s \in DOMAIN store THEN store[s] ELSE << >>)
                 \o << [role |-> role, content |-> content] >>
        ELSE store[s]]
\* self._messages.get(session_id, [])
MessagesOf(store, session_id) == IF session_id \in DOMAIN store THEN store[session_id] ELSE << >>

Requests == 1..MaxRequests
\* The content of the n-th message of request r.
Content(r, n) == [request |-> r, message |-> n]

\* Each request is a POST /chat/sse or a WebSocket connection, on a session id.
InitC ==
    /\ BatchIdle /\ PathIdle /\ TruncIdle /\ ExtractIdle /\ LangIdle /\ ProcIdle
    /\ SaveIdle /\ AgentIdle
    /\ requests \in [Requests -> [kind : {"sse", "ws"}, session_id : SessionIds,
                                  at : {"new"}, n : {0}]]
    /\ messages = << >>

ChatFrame == UNCHANGED << batchVars, pathVars, truncVars, extractVars, langVars,
                          procVars, saveVars, agentVars >>

\* chat_sse up to its return: a missing session is a 404; otherwise the user
\* message is stored and the event generator is handed to the response.
ChatSse(r) ==
    /\ requests[r].kind = "sse" /\ requests[r].at = "new"
    /\ IF ~SessionExists(requests[r].session_id)
       THEN /\ requests' = [requests EXCEPT ![r].at = "rejected"]
            /\ UNCHANGED messages
       ELSE /\ messages' = AddMessage(messages, requests[r].session_id, "user", Content(r, 1))
            /\ requests' = [requests EXCEPT ![r].at = "generating", ![r].n = 1]
    /\ ChatFrame

\* chat_websocket up to accept: a missing session closes the socket.
WsConnect(r) ==
    /\ requests[r].kind = "ws" /\ requests[r].at = "new"
    /\ requests' = [requests EXCEPT ![r].at = IF SessionExists(requests[r].session_id)
                                              THEN "receiving" ELSE "rejected"]
    /\ UNCHANGED messages
    /\ ChatFrame

\* receive_text returns a message: it is stored and acknowledged. A text that
\* is not a valid message is answered with an error and nothing is stored.
WsReceive(r) ==
    /\ requests[r].kind = "ws" /\ requests[r].at = "receiving"
    /\ requests[r].n < MaxMessages
    /\ \/ /\ messages' = AddMessage(messages, requests[r].session_id, "user",
                                    Content(r, requests[r].n + 1))
          /\ requests' = [requests EXCEPT ![r].at = "generating", ![r].n = @ + 1]
       \/ /\ requests' = [requests EXCEPT ![r].n = @ + 1]
          /\ UNCHANGED messages
    /\ ChatFrame

\* await generate_ai_response(...): it returns the response (the fallback text
\* when the coordinator cannot be reached).
Generate(r) ==
    /\ requests[r].at = "generating"
    /\ requests' = [requests EXCEPT ![r].at = "streaming"]
    /\ UNCHANGED messages
    /\ ChatFrame

\* The chunks have been sent: the assistant message is stored, then the
\* completion is sent; a WebSocket connection waits for the next message.
StoreResponse(r) ==
    /\ requests[r].at = "streaming"
    /\ messages' = AddMessage(messages, requests[r].session_id, "assistant",
                              Content(r, requests[r].n))
    /\ requests' = [requests EXCEPT ![r].at = IF requests[r].kind = "ws"
                                              THEN "receiving" ELSE "done"]
    /\ ChatFrame

\* The client goes away while the response is generated or streamed: the
\* generator is cancelled, or the send raises; the response is not stored.
Disconnect(r) ==
    /\ requests[r].at \in {"generating", "streaming", "receiving"}
    /\ requests' = [requests EXCEPT ![r].at = "disconnected"]
    /\ UNCHANGED messages
    /\ ChatFrame

NextC ==
    \/ \E r \in Requests : ChatSse(r)
    \/ \E r \in Requests : WsConnect(r)
    \/ \E r \in Requests : WsReceive(r)
    \/ \E r \in Requests : Generate(r)
    \/ \E r \in Requests : StoreResponse(r)
    \/ \E r \in Requests : Disconnect(r)

SpecC == InitC /\ [][NextC]_vars

\* ================================================== the agent manager (agent_manager.py)
\* The prompts and the model names the calls are made with.
Prompts == {1, 2}
ModelNames == {1, 2}

\* create_agent_config(name, model, system_prompt): the row is added and
\* committed (an existing name is an IntegrityError: nothing changes), then the
\* history row of the initial configuration.
CreateAgentConfig(config, history, model_name, system_prompt) ==
    IF config # None
    THEN [config |-> config, history |-> history]
    ELSE [config |-> Some([model |-> model_name, system_prompt |-> system_prompt]),
          history |-> Append(history,
                             [old_prompt |-> None, new_prompt |-> system_prompt])]

\* update_agent_config(name, model, system_prompt): the fields given replace
\* the row's; a history row is added if a prompt was given that differs from
\* the old one. Nothing happens when the row is not found.
UpdateAgentConfig(config, history, model_name, system_prompt) ==
    IF config = None
    THEN [config |-> config, history |-> history]
    ELSE LET old_prompt == config[1].system_prompt
         IN  [config |-> Some([model |-> IF model_name # None THEN model_name[1]
                                         ELSE config[1].model,
                               system_prompt |-> IF system_prompt # None
                                                 THEN system_prompt[1] ELSE old_prompt]),
              history |-> IF system_prompt # None /\ system_prompt[1] # old_prompt
                          THEN Append(history,
                                      [old_prompt |-> Some(old_prompt),
                                       new_prompt |-> system_prompt[1]])
                          ELSE history]

\* delete_agent_config(name): the row of agent_configs is deleted; the rows of
\* agent_prompt_history are not touched.
DeleteAgentConfig(config, history) == [config |-> None, history |-> history]

InitA ==
    /\ BatchIdle /\ PathIdle /\ TruncIdle /\ ExtractIdle /\ LangIdle /\ ProcIdle
    /\ SaveIdle /\ ChatIdle
    /\ agent_config = None /\ prompt_history = << >> /\ agent_calls = 0

AgentFrame == UNCHANGED << batchVars, pathVars, truncVars, extractVars, langVars,
                           procVars, saveVars, chatVars >>

\* The calls on the agent name, one after the other.
Create ==
    /\ agent_calls < MaxAgentCalls
    /\ \E m \in ModelNames, p \in Prompts :
           LET after == CreateAgentConfig(agent_config, prompt_history, m, p)
           IN  agent_config' = after.config /\ prompt_history' = after.history
    /\ agent_calls' = agent_calls + 1
    /\ AgentFrame

Update ==
    /\ agent_calls < MaxAgentCalls
    /\ \E m \in {None} \cup {Some(x) : x \in ModelNames},
          p \in {None} \cup {Some(x) : x \in Prompts} :
           LET after == UpdateAgentConfig(agent_config, prompt_history, m, p)
           IN  agent_config' = after.config /\ prompt_history' = after.history
    /\ agent_calls' = agent_calls + 1
    /\ AgentFrame

Delete ==
    /\ agent_calls < MaxAgentCalls
    /\ LET after == DeleteAgentConfig(agent_config, prompt_history)
       IN  agent_config' = after.config /\ prompt_history' = after.history
    /\ agent_calls' = agent_calls + 1
    /\ AgentFrame

NextA == Create \/ Update \/ Delete

SpecA == InitA /\ [][NextA]_vars

\* ================================================== claims on the batch
BatchReturned == pc = "returned"

\* C1: batch_process_async returns exactly len(urls) results, and result i is
\* the outcome of the task of urls[i] (a successful one carries urls[i] as its
\* source), whatever the mix of outcomes and the order the tasks finished in.
C1_ResultsInSubmissionOrder ==
    BatchReturned =>
        /\ Len(processed_results) = Len(urls)
        /\ \A i \in Items :
            /\ processed_results[i] = ProcessedResult(taskOutcome[i][1])
            /\ processed_results[i].success =>
                   processed_results[i].metadata[1].source_url = Some(urls[i])

\* A batch has returned whose last item finished first, with a success, a
\* returned failure and a raised exception among its items.
C1_Witness ==
    /\ BatchReturned /\ Len(urls) = 3
    /\ doneOrder[1] = 3
    /\ \E i \in Items : processed_results[i].success
    /\ \E i \in Items : cause[i] = "download_false"
    /\ \E i \in Items : taskOutcome[i][1].raised

\* C2: in every state of a batch, at most max_concurrent items hold the limiter.
C2_InFlightAtMostMaxConcurrent ==
    pc \in {"gather", "returned"} =>
        /\ Cardinality(InFlight) <= max_concurrent
        /\ sem = max_concurrent - Cardinality(InFlight)

\* The limiter is full and an item waits for it.
C2_Witness ==
    /\ pc = "gather" /\ max_concurrent = 2
    /\ Cardinality(InFlight) = 2
    /\ \E i \in Items : st[i] = "waiting"

C4_SummaryCoversEveryItem ==
    summary # None =>
        /\ summary[1].total_files = Len(urls)
        /\ summary[1].successful =
               Cardinality({i \in Items : processed_results[i].success})
        /\ summary[1].failed =
               Cardinality({i \in Items : ~processed_results[i].success})
        /\ Len(summary[1].results) = Len(urls)
        /\ \A i \in Items : summary[1].results[i] = SummaryEntry(processed_results[i])

\* The items whose download never returns.
Hung == {i \in Items : st[i] = "hung"}

\* Item j has reached a terminal state; item j is stuck.
Ended(j) == j \in Items /\ st[j] = "done"
Stuck(j) == j \in Items /\ st[j] = "hung"

\* C6 as stated: with at least one slot, whichever items are stuck, every other
\* submitted item eventually reaches a terminal state.
C6_StuckItemsNeverBlockOthers ==
    \A j \in 1..MaxUrls :
        (pc = "gather" /\ j \in Items /\ max_concurrent >= 1 /\ ~Stuck(j))
            ~> (Ended(j) \/ Stuck(j))

\* C6, amended: every submitted item that is not itself stuck eventually reaches
\* a terminal state unless stuck items come to hold every slot of the limiter
\* (as one stuck item does when max_concurrent = 1).
C6_OthersFinishWhileASlotIsFree ==
    \A j \in 1..MaxUrls :
        (pc = "gather" /\ j \in Items /\ ~Stuck(j))
            ~> (Ended(j) \/ Stuck(j) \/ Cardinality(Hung) >= max_concurrent)

\* The first item is stuck in one of two slots and both other items have ended.
C6_Witness ==
    /\ Len(urls) = 3 /\ max_concurrent = 2
    /\ st[1] = "hung" /\ st[2] = "done" /\ st[3] = "done"

\* ============================================ claims on validate_pdf_path
\* The call has been made and this is its outcome.
Called == vres # None
Outcome == vres[1]

\* The raw path resolves to a regular file that exists.
ExistingRegularFile == vraw # << >> /\ ~ResolveFails(vraw) /\ vfs.node = "file"

\* C7 as stated: every raw path holding '..' is rejected with the path-traversal
\* error.
C7_TraversalErrorForEveryDotDot ==
    Called /\ HasDotDot(vraw) => ~Outcome.ok /\ Outcome.err = "Traversal"

\* C7, amended: every raw path holding '..' is rejected with a PDFSecurityError,
\* whatever the filesystem holds: the path-traversal error when the raw string
\* resolves, the invalid-format error when its resolution fails.
C7_DotDotAlwaysRejected ==
    Called /\ HasDotDot(vraw) =>
        /\ ~Outcome.ok
        /\ Outcome.err = IF ResolveFails(vraw) THEN "InvalidFormat" ELSE "Traversal"

\* A path holding '..' that names an existing PDF within the size limit is
\* rejected as a traversal.
C7_Witness ==
    /\ Called /\ HasDotDot(vraw) /\ ExistingRegularFile
    /\ ~BadExtension(Resolve(vraw, vfs)) /\ vfs.size <= MaxFileSizeBytes
    /\ Outcome.err = "Traversal"

\* Whether the check that raises `kind` fails on an input.
CheckFails(kind, raw, fs) ==
    CASE kind = "InvalidPath" -> raw = << >>
      [] kind = "InvalidFormat" -> ResolveFails(raw)
      [] kind = "Traversal" -> HasDotDot(raw)
      [] kind = "OSError" -> fs.node = "unreachable"
      [] kind = "NotFound" -> fs.node = "missing"
      [] kind = "NotAFile" -> fs.node # "file"
      [] kind = "InvalidType" -> ResolveFails(raw) \/ BadExtension(Resolve(raw, fs))
      [] kind = "TooLarge" -> fs.size > MaxFileSizeBytes

\* The error of the first failing check of an ordered list ("none": all pass).
FirstFailure(order, raw, fs) ==
    LET failing == {k \in 1..Len(order) : CheckFails(order[k], raw, fs)}
    IN  IF failing = {} THEN "none"
        ELSE order[CHOOSE k \in failing : \A j \in failing : k <= j]

\* The order of section 4.1: the traversal token before the resolution.
StatedOrder ==
    << "InvalidPath", "Traversal", "InvalidFormat", "OSError", "NotFound", "NotAFile",
       "InvalidType", "TooLarge" >>

\* The order of the code: the resolution before the traversal token.
CodeOrder ==
    << "InvalidPath", "InvalidFormat", "Traversal", "OSError", "NotFound", "NotAFile",
       "InvalidType", "TooLarge" >>

\* C8 as stated: the error reported is that of the earliest failing check in the
\* order non-empty, traversal token, resolution, existence, regular file,
\* extension, size.
C8_ErrorOfStatedOrder ==
    Called => Outcome.err = FirstFailure(StatedOrder, vraw, vfs)

\* C8, amended: the error reported is that of the earliest failing check in the
\* order non-empty, resolution, traversal token (on the raw string), existence,
\* regular file, extension, size; the path is validated iff no check fails.
C8_ErrorOfCodeOrder ==
    Called =>
        /\ Outcome.err = FirstFailure(CodeOrder, vraw, vfs)
        /\ Outcome.ok <=> FirstFailure(CodeOrder, vraw, vfs) = "none"

\* An input failing several checks (the traversal token, and the file is
\* missing) is reported as the earlier one.
C8_Witness ==
    /\ Called /\ HasDotDot(vraw) /\ ~ResolveFails(vraw) /\ vfs.node = "missing"
    /\ Outcome.err = "Traversal"

\* C9 as stated: every existing regular file whose extension is not .pdf is
\* rejected with the invalid-type error, and no path with another extension is
\* returned.
C9_InvalidTypeForEveryNonPdf ==
    Called =>
        /\ ExistingRegularFile /\ BadExtension(Resolve(vraw, vfs))
               => ~Outcome.ok /\ Outcome.err = "InvalidType"
        /\ Outcome.ok => ~BadExtension(Outcome.path)

\* C9, amended: every existing regular file whose extension is not .pdf is
\* rejected, whatever its size: with the invalid-type error, or with the
\* path-traversal error when the raw string holds '..'; and no path with another
\* extension is returned.
C9_NonPdfAlwaysRejected ==
    Called =>
        /\ ExistingRegularFile /\ BadExtension(Resolve(vraw, vfs))
               => /\ ~Outcome.ok
                  /\ Outcome.err = IF HasDotDot(vraw) THEN "Traversal" ELSE "InvalidType"
        /\ Outcome.ok => ~BadExtension(Outcome.path)

\* A regular file over the size ceiling with another extension is rejected for
\* its type.
C9_Witness ==
    /\ Called /\ ExistingRegularFile /\ BadExtension(Resolve(vraw, vfs))
    /\ vfs.size > MaxFileSizeBytes
    /\ Outcome.err = "InvalidType"

\* Every check before the size check passes.
OtherwiseValid ==
    /\ ExistingRegularFile /\ ~HasDotDot(vraw)
    /\ ~BadExtension(Resolve(vraw, vfs))

\* C10: an otherwise valid PDF path is validated iff its size in bytes is at most
\* 100 * 1024 * 1024: validated at exactly the ceiling, rejected as too large one
\* byte above it.
C10_SizeCeiling ==
    Called /\ OtherwiseValid =>
        /\ Outcome.ok <=> vfs.size <= 100 * 1024 * 1024
        /\ ~Outcome.ok => Outcome.err = "TooLarge"
        /\ vfs.size = 100 * 1024 * 1024 + 1 => Outcome.err = "TooLarge"

\* A PDF of exactly the ceiling is validated.
C10_Witness ==
    Called /\ OtherwiseValid /\ vfs.size = 100 * 1024 * 1024 /\ Outcome.ok

\* ================================================ claims on truncate_text
\* truncate_text has been called, and this is what it returned.
Truncated == Len(tout) >= 1
TruncResult == tout[1]

C14_TruncationIdempotent ==
    Len(tout) = 2 => tout[2].text = tout[1].text

\* C14, amended: for every text and every max_length >= 0, truncating the text a
\* previous truncate_text returned, at the same max_length, returns it unchanged
\* (cut again at the same place and given the same marker when it was cut before).
C14_IdempotentForLengths ==
    Len(tout) = 2 /\ tmax >= 0 =>
        /\ tout[2].text = tout[1].text
        /\ tout[2].truncated = tout[1].truncated

\* A text that was cut is cut again, to the same text.
C14_Witness ==
    /\ Len(tout) = 2 /\ tmax >= 1
    /\ tout[1].truncated /\ tout[2].truncated
    /\ tout[1].text # ttext
    /\ tout[2].text = tout[1].text

\* ======================================== claims on extract_text_from_pdf
\* extract_text_from_pdf has been called; its input and what came of it.
Extracted == xout # None
XIn == xin[1]
XOut == xout[1]
\* The path passed validation, so the backends were reached.
XValidated == ValidatePdfPath(XIn.raw, XIn.fs).ok
XMaxPages == IF XIn.max_pages \in {None, Some(0)} THEN 1000 ELSE XIn.max_pages[1]
XMaxLength == IF XIn.max_length \in {None, Some(0)} THEN 500000 ELSE XIn.max_length[1]

\* The priority order the claim states, and what each backend's adapter returns
\* for the call's document.
StatedPriority == << "PyMuPDF", "pdfplumber", "PyPDF2" >>
AdapterText(k) == ExtractWith(StatedPriority[k], XIn.doc, XMaxPages)
\* An adequate outcome: not a failure, and more than 10 characters once trimmed.
Adequate(text) == ~StartsWithError(text) /\ Len(Strip(text)) > 10
\* The available backends whose outcome is adequate.
AdequateBackends ==
    {k \in 1..3 : Available(StatedPriority[k], XIn.avail) /\ Adequate(AdapterText(k))}
\* The available backends among the first k, in priority order.
AvailableUpTo(k) ==
    SelectSeq(SubSeq(StatedPriority, 1, k), LAMBDA b : Available(b, XIn.avail))
\* The backends that were invoked, in the order of their invocation.
Invoked == [i \in 1..Len(XOut.calls) |-> XOut.calls[i].backend]

\* C11: on a validated path the available backends are tried in the order
\* PyMuPDF, pdfplumber, PyPDF2; the text returned is the truncated text of the
\* first one whose outcome is adequate, the backends invoked are exactly the
\* available ones down to it (none after it, every available one before it),
\* and when none is adequate every available backend has been tried.
C11_FirstAdequateBackendWins ==
    Extracted /\ XValidated =>
        IF AdequateBackends = {}
        THEN XOut.accepted = "none" /\ Invoked = AvailableUpTo(3)
        ELSE LET first == CHOOSE k \in AdequateBackends : \A j \in AdequateBackends : k <= j
             IN  /\ XOut.accepted = StatedPriority[first]
                 /\ XOut.text = TruncateText(AdapterText(first), XMaxLength).text
                 /\ Invoked = AvailableUpTo(first)

\* All three backends are installed, PyMuPDF fails on the document, pdfplumber's
\* text is accepted and cut to the limit, and PyPDF2 is never invoked.
C11_Witness ==
    /\ Extracted /\ XValidated
    /\ XIn.avail = [fitz |-> TRUE, pdfplumber |-> TRUE, pypdf2 |-> TRUE]
    /\ XOut.accepted = "pdfplumber"
    /\ Invoked = << "PyMuPDF", "pdfplumber" >>
    /\ StartsWithError(XOut.calls[1].text)
    /\ XOut.text # XOut.calls[2].text
    /\ XOut.text = TruncateText(XOut.calls[2].text, 25).text

\* C12: extract_text_from_pdf never raises, whatever path it is given and
\* whatever the backends do: it returns a string.
C12_ExtractNeverRaises ==
    Extracted => ~XOut.raised

\* Where a substring occurs in a text.
Occurrences(text, sub) ==
    {i \in 1..(Len(text) - Len(sub) + 1) : SubSeq(text, i, i + Len(sub) - 1) = sub}
EndsWith(text, sub) ==
    Len(text) >= Len(sub) /\ SubSeq(text, Len(text) - Len(sub) + 1, Len(text)) = sub
\* The calls of adapters that succeeded.
Succeeded == {i \in 1..Len(XOut.calls) : ~StartsWithError(XOut.calls[i].text)}
XPages == XIn.doc.pages
PagesProcessed == IF Len(XPages) <= XMaxPages THEN Len(XPages) ELSE XMaxPages

\* C15: an adapter that succeeds on a document of T pages with the limit
\* max_pages emits exactly min(T, max_pages) page entries, the entry of page i
\* before that of page i+1, the entry of a page without text carrying the
\* '(No text extracted)' marker, and ends with the note of T - max_pages more
\* pages iff T > max_pages (50 pages with the limit 10: 10 entries and a note of
\* 40 more pages).
C15_OneEntryPerProcessedPage ==
    Extracted =>
        \A c \in Succeeded :
            LET text == XOut.calls[c].text
            IN  /\ Cardinality(Occurrences(text, << 45, 45, 45, 32, 80, 97, 103, 101, 32 >>)) = PagesProcessed
                /\ \A i \in 1..PagesProcessed :
                    LET at == Occurrences(text, PageHeader(i, Len(XPages)))
                    IN  /\ Cardinality(at) = 1
                        /\ i > 1 => \A a \in at :
                               \A b \in Occurrences(text, PageHeader(i - 1, Len(XPages))) : b < a
                        /\ XPages[i] = << >> =>
                               Occurrences(text, PageHeader(i, Len(XPages)) \o NoTextMarker) # {}
                /\ IF Len(XPages) > XMaxPages
                   THEN EndsWith(text, MorePagesNote(Len(XPages) - XMaxPages, XMaxPages))
                   ELSE Occurrences(text, << 109, 111, 114, 101, 32, 112, 97, 103, 101, 115, 32, 110, 111, 116, 32, 101, 120, 116, 114, 97, 99, 116, 101, 100 >>) = {}
                /\ Len(XPages) = 50 /\ XMaxPages = 10 =>
                       EndsWith(text, << 10, 91, 46, 46, 46, 32, 52, 48, 32, 109, 111, 114, 101, 32, 112, 97, 103, 101, 115, 32, 110, 111, 116, 32, 101, 120, 116, 114, 97, 99, 116, 101, 100, 32, 40, 108, 105, 109, 105, 116, 58, 32, 49, 48, 41, 32, 46, 46, 46, 93 >>)

\* An adapter has read a document of 50 pages with the limit 10: 10 entries,
\* each with the marker, and the note of 40 more pages.
C15_Witness ==
    /\ Extracted /\ Len(XPages) = 50 /\ XMaxPages = 10
    /\ \E c \in Succeeded :
        /\ Cardinality(Occurrences(XOut.calls[c].text, << 45, 45, 45, 32, 80, 97, 103, 101, 32 >>)) = 10
        /\ Cardinality(Occurrences(XOut.calls[c].text, NoTextMarker)) = 10
        /\ Occurrences(XOut.calls[c].text, << 52, 48, 32, 109, 111, 114, 101, 32, 112, 97, 103, 101, 115 >>) # {}

\* ============================ claims on the language and legacy detection
\* The characters of the text in the Sinhala block U+0D80..U+0DFF, in the Tamil
\* block U+0B80..U+0BFF, and its ASCII letters.
SinhalaIn(text) == {i \in 1..Len(text) : text[i] \in 3456..3583}
TamilIn(text) == {i \in 1..Len(text) : text[i] \in 2944..3071}
LettersIn(text) == {i \in 1..Len(text) : text[i] \in (65..90) \cup (97..122)}
\* The known legacy-font patterns the text holds.
PatternsIn(text) == {p \in 1..Len(FmPatterns) : Contains(text, FmPatterns[p])}
SemicolonsIn(text) == {i \in 1..Len(text) : text[i] = 59}

\* C16: detect_legacy_font(text) is true iff len(text) >= 20, the text holds no
\* Sinhala-block character, and the ratio of ';' to all characters is above
\* 0.03 or at least 3 of the known legacy-font patterns occur in it; so the flag
\* is false for every text that holds a Sinhala-block character.
C16_LegacyFlag ==
    llegacy # None =>
        /\ llegacy[1] <=>
               /\ Len(ltext) >= 20
               /\ SinhalaIn(ltext) = {}
               /\ \/ 100 * Cardinality(SemicolonsIn(ltext)) > 3 * Len(ltext)
                  \/ Cardinality(PatternsIn(ltext)) >= 3
        /\ SinhalaIn(ltext) # {} => ~llegacy[1]

\* A text of exactly 20 characters without ';' that holds three patterns is
\* flagged.
C16_Witness ==
    /\ llegacy # None /\ Len(ltext) = 20
    /\ SemicolonsIn(ltext) = {}
    /\ Cardinality(PatternsIn(ltext)) = 3
    /\ llegacy[1]

\* The first rule that matches, in the order legacy, Sinhala, Tamil, ASCII
\* letters.
FirstMatchingRule(legacy, sinhala, tamil, english) ==
    CASE legacy -> "INVALID (Legacy Font)"
      [] ~legacy /\ sinhala -> "VALID (Sinhala Unicode)"
      [] ~legacy /\ ~sinhala /\ tamil -> "VALID (Tamil Unicode)"
      [] ~legacy /\ ~sinhala /\ ~tamil /\ english -> "VALID (English)"
      [] OTHER -> "UNKNOWN"

\* C17: get_unicode_status returns the first match of legacy -> INVALID (Legacy
\* Font), Sinhala -> VALID (Sinhala Unicode), Tamil -> VALID (Tamil Unicode),
\* ASCII letters -> VALID (English), else UNKNOWN, for every combination of its
\* arguments and for the flags detected on a text: a text flagged legacy is
\* INVALID whatever Tamil or Latin characters it holds, and a text of Sinhala
\* characters only is VALID (Sinhala Unicode) and not legacy.
C17_StatusIsFirstMatch ==
    /\ \A l \in [has_sinhala : BOOLEAN, has_tamil : BOOLEAN, has_english : BOOLEAN],
          g \in BOOLEAN :
           GetUnicodeStatus(l, g) = FirstMatchingRule(g, l.has_sinhala, l.has_tamil,
                                                      l.has_english)
    /\ lstatus # None =>
        /\ lstatus[1] = FirstMatchingRule(llegacy[1], SinhalaIn(ltext) # {},
                                          TamilIn(ltext) # {}, LettersIn(ltext) # {})
        /\ llegacy[1] => lstatus[1] = "INVALID (Legacy Font)"
        /\ ltext # << >> /\ SinhalaIn(ltext) = 1..Len(ltext) =>
               lstatus[1] = "VALID (Sinhala Unicode)" /\ ~llegacy[1]

\* A text with Tamil and Latin characters is flagged legacy and reported INVALID.
C17_Witness ==
    /\ lstatus # None /\ llegacy[1]
    /\ TamilIn(ltext) # {} /\ LettersIn(ltext) # {}
    /\ lstatus[1] = "INVALID (Legacy Font)"

\* The text with its characters rearranged by a permutation of its positions.
Permuted(text, perm) == [i \in 1..Len(text) |-> text[perm[i]]]
Reversed(text) == [i \in 1..Len(text) |-> text[Len(text) + 1 - i]]

\* C18: detect_languages sets has_sinhala / has_tamil / has_english iff at least
\* one character lies in U+0D80..U+0DFF / U+0B80..U+0BFF / the ASCII letters;
\* rearranging the characters (every permutation of a short text, the reversal
\* of a long one) gives the same flags.
C18_FlagsOfTheCharacterSet ==
    llang # None =>
        /\ llang[1].has_sinhala <=> SinhalaIn(ltext) # {}
        /\ llang[1].has_tamil <=> TamilIn(ltext) # {}
        /\ llang[1].has_english <=> LettersIn(ltext) # {}
        /\ DetectLanguages(Reversed(ltext)) = llang[1]
        /\ Len(ltext) <= 4 =>
               \A perm \in Permutations(1..Len(ltext)) :
                   DetectLanguages(Permuted(ltext, perm)) = llang[1]

\* The last character of the Sinhala block before an ASCII letter: both flags
\* are set, the Tamil one is not.
C18_Witness ==
    /\ llang # None /\ Len(ltext) = 2
    /\ ltext[1] = 3583 /\ ltext[2] = 122
    /\ llang[1] = [has_sinhala |-> TRUE, has_tamil |-> FALSE, has_english |-> TRUE]

\* ================================================== claims on process_pdf
\* The call of process_pdf that has returned, and its input.
Processed == pin # None /\ pout # None
PIn == pin[1]
PRun == pout[1]
PResult == PRun.result
\* What validate_pdf_path made of the path handed to process_pdf.
PValidated == ValidatePdfPath(PIn.raw, PIn.fs)
\* validate_pdf_path raised a PDFSecurityError.
PSecurityError == ~PValidated.ok /\ PValidated.err # "OSError"

\* C20: process_pdf turns both kinds of extraction failure into a failed result.
\* When the path validation raises a PDFSecurityError the result is failed, its
\* error carries that error's message, and no backend has been invoked. When
\* the extraction returns a string that starts with the error marker the result
\* is failed, its error is exactly that string, and neither the language nor
\* the legacy-font detection has run.
C20_ExtractionFailuresBecomeFailedResults ==
    Processed =>
        /\ PSecurityError =>
               /\ ~PResult.success
               /\ PResult.error = Some(<< 83, 101, 99, 117, 114, 105, 116, 121, 32, 69, 114, 114, 111, 114, 58, 32 >> \o SecurityMessage(PValidated.err))
               /\ PResult.text = None /\ PResult.metadata = None
               /\ PRun.invoked = << >>
               /\ ~PRun.detected
        /\ (PRun.extracted # None /\ StartsWith(PRun.extracted[1], << 69, 114, 114, 111, 114 >>)) =>
               /\ ~PResult.success
               /\ PResult.error = PRun.extracted
               /\ PResult.text = None /\ PResult.metadata = None
               /\ ~PRun.detected

\* Every installed backend was invoked on a document none could read, and the
\* string the extraction returned, which has no colon after the marker, is the
\* error of the failed result.
C20_Witness ==
    /\ Processed
    /\ PRun.invoked = << "PyMuPDF", "pdfplumber", "PyPDF2" >>
    /\ PRun.extracted # None
    /\ StartsWith(PRun.extracted[1], << 69, 114, 114, 111, 114, 32, 40, 80, 121, 80, 68, 70, 50, 41, 58, 32 >>)
    /\ ~PResult.success /\ PResult.error = PRun.extracted /\ ~PRun.detected

\* ================================================== claims on PipelineResult
\* process_pdf called on its own and the batch, side by side: a behaviour is a
\* call of process_pdf or a run of batch_process_async.
InitAll == Init \/ InitP
NextAll == Next \/ NextP
SpecAll == InitAll /\ [][NextAll]_vars

\* A field that holds a value, and for a text or a message a non-empty one.
Populated(field) == field # None /\ field[1] # << >>
Absent(field) == field = None
SuccessShape(result) ==
    /\ result.success
    /\ Populated(result.text) /\ Populated(result.metadata) /\ Absent(result.error)
FailureShape(result) ==
    /\ ~result.success
    /\ Populated(result.error) /\ Absent(result.text) /\ Absent(result.metadata)
\* The PipelineResults returned so far: by process_pdf, by the
\* download_and_process of each task, and in the list of batch_process_async.
ReturnedResults ==
    {pout[k].result : k \in 1..Len(pout)}
    \cup {taskOutcome[i][1].value[1] :
              i \in {j \in Items : taskOutcome[j] # None /\ ~taskOutcome[j][1].raised}}
    \cup {processed_results[i] : i \in 1..Len(processed_results)}

\* C19: every PipelineResult returned by process_pdf, download_and_process or
\* batch_process_async has exactly one of two shapes: success with text and
\* metadata populated and no error, or failure with an error populated and
\* neither text nor metadata.
C19_ResultHasOneOfTwoShapes ==
    \A result \in ReturnedResults :
        /\ SuccessShape(result) \/ FailureShape(result)
        /\ ~(SuccessShape(result) /\ FailureShape(result))

\* A batch has returned a success next to two failures, one made by
\* download_and_process and one made from an exception the task raised.
C19_Witness ==
    /\ BatchReturned
    /\ \E i \in Items : cause[i] = "none" /\ SuccessShape(processed_results[i])
    /\ \E i \in Items : cause[i] = "raised" /\ FailureShape(processed_results[i])
    /\ \E i \in Items : cause[i] = "extraction" /\ FailureShape(processed_results[i])

\* ================================================== claims on download_and_process
\* The PipelineResult the download_and_process of item i returned.
ChainEnded(i) == taskOutcome[i] # None /\ ~taskOutcome[i][1].raised
ChainResult(i) == taskOutcome[i][1].value[1]
Made(i, call) == \E k \in 1..Len(chainCalls[i]) : chainCalls[i][k] = call
\* self.results holds a result made for the locator of item i.
Recorded(i) ==
    \E k \in 1..Len(results) : results[k].metadata[1].source_url = Some(urls[i])

\* C21: in download_and_process a locator that validate_url rejects gives a
\* failed result with a Security Error and download is not invoked; a download
\* that returns False or raises gives a failed result and no file is validated
\* or extracted (process_pdf is not called and nothing is recorded).
C21_FailedFetchStopsTheChain ==
    \A i \in Items :
        /\ cause[i] = "invalid_url" =>
               /\ ChainEnded(i) /\ FailureShape(ChainResult(i))
               /\ StartsWith(ChainResult(i).error[1], << 83, 101, 99, 117, 114, 105, 116, 121, 32, 69, 114, 114, 111, 114, 58, 32 >>)
               /\ chainCalls[i] = << "validate_url" >>
               /\ ~Recorded(i)
        /\ cause[i] \in {"download_false", "download_raised"} =>
               /\ ChainEnded(i) /\ FailureShape(ChainResult(i))
               /\ Made(i, "download")
               /\ ~Made(i, "glob") /\ ~Made(i, "process_pdf")
               /\ ~Recorded(i)

\* One batch in which a locator was rejected and a download returned False,
\* next to an item whose file was processed.
C21_Witness ==
    /\ BatchReturned
    /\ \E i \in Items : cause[i] = "invalid_url"
    /\ \E i \in Items : cause[i] = "download_false"
    /\ \E i \in Items : Made(i, "process_pdf")

\* C22: the file processed and recorded with source_url = locator L is the file
\* that L's own download wrote into the downloads directory, for every
\* interleaving of the downloads and every earlier content of the directory:
\* a successful result of item i carries urls[i] as its source and names the
\* file of the document of urls[i].
C22_ProcessedFileIsTheLocatorsOwn ==
    \A i \in Items :
        (ChainEnded(i) /\ ChainResult(i).success) =>
            /\ ChainResult(i).metadata[1].source_url = Some(urls[i])
            /\ ChainResult(i).metadata[1].file_name = FileName([doc |-> urls[i]])

\* C25: the limiter is the only mutable state the in-flight items share. No
\* chain writes the downloads directory while another item is between its own
\* download and its selection from that directory, and no chain appends to
\* self.results while another item is in flight.
C25_OnlyTheLimiterIsShared ==
    [][/\ (\E j \in Items : st[j] = "downloaded") => downloads' = downloads
       /\ \A i \in Items :
              (st[i] = "downloaded" /\ st'[i] = "done" /\ InFlight \ {i} # {})
                  => results' = results]_vars

\* C27: batch_process_async eventually returns for every locator list and every
\* max_concurrent that asyncio.Semaphore accepts (any value >= 0), provided the
\* chain of every item terminates (no download hangs); and when it returns the
\* limiter holds all its permits again.
C27_BatchReturnsWithAllPermits ==
    /\ (pc = "start" /\ max_concurrent >= 0) ~> (pc = "returned" \/ Hung # {})
    /\ [](pc = "returned" => sem = max_concurrent)

\* ================================================== claims on the adequacy test
\* The test of the claim: not a failure, and more than 10 characters once trimmed.
AdequateText(text) == text # << >> /\ ~StartsWithError(text) /\ Len(Strip(text)) > 10
\* The k-th adapter call of the run is the one whose text was returned.
AcceptedCall(k) == k = Len(XOut.calls) /\ XOut.accepted = XOut.calls[k].backend

\* C23: the adequacy test is the same for every backend. The outcome of an
\* adapter call is accepted exactly when it is not a failure and its trimmed
\* text is longer than 10 characters, whichever backend made it: no output of
\* trimmed length <= 10 is accepted, and none that passes is passed over.
C23_SameAdequacyTestForEveryBackend ==
    Extracted /\ XValidated =>
        \A k \in 1..Len(XOut.calls) :
            AcceptedCall(k) <=> AdequateText(XOut.calls[k].text)

\* PyPDF2's text, longer than 10 characters once trimmed, is accepted after the
\* outcomes of PyMuPDF and pdfplumber were rejected.
C23_Witness ==
    /\ Extracted /\ XValidated
    /\ Len(XOut.calls) = 3
    /\ XOut.accepted = "PyPDF2"
    /\ ~AdequateText(XOut.calls[1].text) /\ ~AdequateText(XOut.calls[2].text)
    /\ Len(Strip(XOut.calls[3].text)) > 10

\* ================================================== claims on the fallback
\* The adapter calls of the run that returned a non-empty string.
NonEmptyCalls == {k \in 1..Len(XOut.calls) : XOut.calls[k].text # << >>}
NoLibraryError ==
    << 69, 114, 114, 111, 114, 58, 32, 78, 111, 32, 80, 68, 70, 32, 101, 120, 116, 114, 97, 99, 116, 105, 111, 110, 32, 108, 105, 98, 114, 97, 114, 121, 32, 97, 118, 97, 105, 108, 97, 98, 108, 101, 46, 32, 73, 110, 115, 116, 97, 108, 108, 32, 80, 121, 77, 117, 80, 68, 70, 44, 32, 112, 100, 102, 112, 108, 117, 109, 98, 101, 114, 44, 32, 111, 114, 32, 80, 121, 80, 68, 70, 50, 46 >>
CouldNotExtractError == << 69, 114, 114, 111, 114, 58, 32, 67, 111, 117, 108, 100, 32, 110, 111, 116, 32, 101, 120, 116, 114, 97, 99, 116, 32, 116, 101, 120, 116, 32, 102, 114, 111, 109, 32, 80, 68, 70 >>

\* C24: when no backend's outcome is accepted, the result is the 'No PDF
\* extraction library available' error if no backend is installed; otherwise
\* it is the output of the most recent attempt that produced a non-empty
\* string, also when a later attempt produced an empty one; and it is the
\* generic 'Could not extract text from PDF' error only if no attempt produced
\* a non-empty string.
C24_LastNonEmptyAttemptIsReturned ==
    (Extracted /\ XValidated /\ XOut.accepted = "none") =>
        IF ~(XIn.avail.fitz \/ XIn.avail.pdfplumber \/ XIn.avail.pypdf2)
        THEN XOut.text = NoLibraryError
        ELSE IF NonEmptyCalls # {}
        THEN LET last == CHOOSE k \in NonEmptyCalls : \A j \in NonEmptyCalls : j <= k
             IN  XOut.text = XOut.calls[last].text
        ELSE XOut.text = CouldNotExtractError

\* ================================================== claims on _extract_with_fitz
\* PyMuPDF's adapter was called in the run; the operations it made and its text.
FitzCalled == Extracted /\ XValidated /\ XIn.avail.fitz
FitzOps == FitzOperations(XIn.doc, XMaxPages)
FitzText == XOut.calls[1].text

\* C28: in _extract_with_fitz every operation on the document handle comes
\* before the handle is closed, so closing is the last operation of a run, and
\* a document that PyMuPDF opens and whose pages it reads gives a text, not an
\* adapter failure.
C28_NoOperationOnAClosedDocument ==
    FitzCalled =>
        /\ \A k \in 1..Len(FitzOps) : FitzOps[k] = "close" => k = Len(FitzOps)
        /\ XIn.doc.engine.fitz = "reads" => ~StartsWithError(FitzText)

\* ================================================== claims on save_result
\* The saved results come from distinct source documents.
DistinctDocuments ==
    \A j, k \in 1..Len(saves) :
        (j # k /\ saves[j].result.success /\ saves[k].result.success)
            => saves[j].result.file_path # saves[k].result.file_path
IsIn(dir, path) == path \in DOMAIN dir

\* C26: save_result writes files only for a successful result with metadata (a
\* failed result writes nothing and returns an empty mapping); and after the
\* successful results of distinct source documents have been saved, the text
\* file and the metadata file of each document hold that document's own data.
C26_EachDocumentKeepsItsOutputPair ==
    /\ \A k \in 1..Len(saves) :
           ~saves[k].result.success =>
               /\ saves[k].returned = << >>
               /\ (IF k < Len(saves) THEN saves[k + 1].before ELSE output_dir)
                      = saves[k].before
    /\ DistinctDocuments =>
           \A k \in 1..Len(saves) :
               LET s == saves[k]
               IN  s.result.success =>
                       /\ s.save_text =>
                              /\ IsIn(output_dir, TextPath(s.result))
                              /\ output_dir[TextPath(s.result)] = TextFile(s.result)
                       /\ s.save_metadata =>
                              /\ IsIn(output_dir, MetaPath(s.result))
                              /\ output_dir[MetaPath(s.result)] = MetaFile(s.result)

\* ================================================== claims on the chat history
\* The stored history of the session.
History == MessagesOf(messages, 1)

\* C29: after any interleaving of chat requests on one session the stored
\* history alternates user, assistant, user, assistant, ...: every assistant
\* message is stored immediately after the user message it answers, and no
\* two user messages are adjacent.
C29_HistoryAlternates ==
    \A k \in 1..Len(History) :
        /\ History[k].role = "assistant" =>
               /\ k > 1
               /\ History[k - 1] = [role |-> "user", content |-> History[k].content]
        /\ (History[k].role = "user" /\ k > 1) => History[k - 1].role = "assistant"

\* ================================================== claims on the prompt history
AgentExists == agent_config # None

\* C30: after any sequence of create, update and delete calls on one agent name
\* the prompt history, oldest entry first, is a chain: the first entry has
\* old_prompt = None, every later entry's old_prompt is the new_prompt of the
\* entry before it, and while the agent exists the newest entry's new_prompt is
\* its current system_prompt.
C30_PromptHistoryIsAChain ==
    /\ prompt_history # << >> => prompt_history[1].old_prompt = None
    /\ \A k \in 2..Len(prompt_history) :
           prompt_history[k].old_prompt = Some(prompt_history[k - 1].new_prompt)
    /\ AgentExists =>
           /\ prompt_history # << >>
           /\ prompt_history[Len(prompt_history)].new_prompt = agent_config[1].system_prompt

====
